---- MODULE Spec2Model ----
(***************************************************************************)
(* State-machine model of the frame-to-event pipeline core of anpr-demo:   *)
(* TrackerSimple, SessionManager, Deduplicator, Voter and Validator, and   *)
(* of DemoPage, which drives a tracker and a voter from processFrame.      *)
(* Each component is an object of its own; none reaches into another, so   *)
(* each gets its own specification over the shared variable tuple (the     *)
(* other components stay in their constructed state).                      *)
(***************************************************************************)
EXTENDS Integers, Sequences, FiniteSets, TLC

VARIABLES
    tracks,        \* TrackerSimple.tracks: the Map's entries in insertion order
    nextTrackId,   \* TrackerSimple.nextTrackId
    frameCount,    \* TrackerSimple.frameCount
    lastUpdate,    \* observation of the last TrackerSimple.update call
    sessions,      \* SessionManager.sessions: trackId -> Session
    sessionConfig, \* SessionManager's maxSessionFrames, disappearThreshold, minSessionFrames
    lastSession,   \* observation of the last SessionManager call
    recentEvents,  \* Deduplicator.recentEvents
    maxHistorySize, \* Deduplicator.maxHistorySize
    lastCheck,     \* observation of the last Deduplicator call
    voteCrops,     \* the OCRCandidate[][] the caller of Voter.vote has collected
    lastVote,      \* observation of the last Voter.vote call
    demoFallbackEnabled, \* Validator.demoFallbackEnabled
    plateText,     \* the text the caller of Validator.validatePlate holds
    lastValidation, \* observation of the last Validator.validatePlate call
    hasCreatedEvent, \* DemoPage: the state hasCreatedEvent as of the last render
    pendingHasCreatedEvent, \* DemoPage: setHasCreatedEvent calls not yet committed
    events,        \* the store's events
    ocrData,       \* OCRPrecomputed.ocrData.tracks: trackId -> candidates per crop
    lastFrame,     \* observation of the last DemoPage step
    selectCrops,   \* the CropImage[] the caller of BestFrameSelector holds
    lastSelect,    \* observation of the last BestFrameSelector call
    lastReplay     \* observation of the last operation that was run twice

trackerVars == <<tracks, nextTrackId, frameCount, lastUpdate>>
sessionVars == <<sessions, sessionConfig, lastSession>>
dedupVars == <<recentEvents, maxHistorySize, lastCheck>>
voterVars == <<voteCrops, lastVote>>
validatorVars == <<demoFallbackEnabled, plateText, lastValidation>>
pageVars == <<hasCreatedEvent, pendingHasCreatedEvent, events, ocrData, lastFrame>>
selectorVars == <<selectCrops, lastSelect>>
replayVars == <<lastReplay>>

\* everything but one component
exceptTracker == <<sessionVars, dedupVars, voterVars, validatorVars, pageVars,
    selectorVars, replayVars>>
exceptSession == <<trackerVars, dedupVars, voterVars, validatorVars, pageVars,
    selectorVars, replayVars>>
exceptDedup == <<trackerVars, sessionVars, voterVars, validatorVars, pageVars,
    selectorVars, replayVars>>
exceptVoter == <<trackerVars, sessionVars, dedupVars, validatorVars, pageVars,
    selectorVars, replayVars>>
exceptValidator == <<trackerVars, sessionVars, dedupVars, voterVars, pageVars,
    selectorVars, replayVars>>
\* everything but DemoPage and the tracker it drives
exceptPage ==
    <<sessionVars, dedupVars, voterVars, validatorVars, selectorVars, replayVars>>
\* everything but the frame selector
exceptSelector ==
    <<trackerVars, sessionVars, dedupVars, voterVars, validatorVars, pageVars,
      replayVars>>
\* everything but the observation of a replay
exceptReplay ==
    <<trackerVars, sessionVars, dedupVars, voterVars, validatorVars, pageVars,
      selectorVars>>

vars == <<tracks, nextTrackId, frameCount, lastUpdate,
          sessions, sessionConfig, lastSession,
          recentEvents, maxHistorySize, lastCheck,
          voteCrops, lastVote,
          demoFallbackEnabled, plateText, lastValidation,
          hasCreatedEvent, pendingHasCreatedEvent, events, ocrData, lastFrame,
          selectCrops, lastSelect, lastReplay>>

\* the value of an unset detection.trackId, and of bestMatch = null
NoTrackId == <<>>

----------------------------------------------------------------------------
(* Bounds of the model.                                                    *)

\* number of update cycles explored on one tracker with arbitrary lists
MaxFrames == 2
\* number of update cycles explored with at most one detection per cycle
MaxLongFrames == 3
\* length of the detection list handed to one update cycle
MaxDets == 2
\* number of update cycles explored with tracks that finish within a cycle
MaxEvictFrames == 8
\* largest maxSessionFrames and minSessionFrames a manager is constructed with
MaxCap == 2
\* number of distinct crops handed to the session manager
MaxCropId == 2
\* crops a session is let grow to
MaxCrops == 2
\* largest maxHistorySize a deduplicator is constructed with
MaxHistory == 1
\* number of crops in the list handed to the frame selector
MaxSelectCrops == 3
\* length of the lists handed to an operation that is run twice
MaxReplayLen == 2
\* largest maxHistorySize of the runs that fill the history
MaxLongHistory == 3
\* the minutes a series of sightings of one plate lasts
MaxSeriesMinutes == 9
\* cycles with detections of the runs that are followed until all tracks finish
MaxLiveFrames == 6
\* cycles of those runs whose sample time does not advance
MaxStallFrames == 1
\* number of crops whose candidates are handed to one vote
MaxVoteCrops == 3
\* number of hyphen-separated segments of a text handed to the validator
MaxSegments == 3
\* number of frames DemoPage processes
MaxPageFrames == 3

----------------------------------------------------------------------------
(* TrackerSimple                                                           *)

\* iouThreshold = 0.3, kept as the fraction IouThresholdNum / IouThresholdDen
IouThresholdNum == 3
IouThresholdDen == 10
maxLostFrames == 10
\* the divisor of handleLostTracks ("assuming ~30fps")
FramePeriodMs == 33
\* "keep last 10 for reference"
FinishedRetention == 10

\* Detections the detection source can hand over.  Boxes are [x1,y1,x2,y2]
\* with x2 > x1 and y2 > y1 (the caller's precondition); conf is in percent.
\*   IoU(X,Y) = 6/20 (exactly the threshold), IoU(Z,X) = IoU(Z,Y) = 10/17,
\*   W intersects none of them.
BoxX == <<0, 0, 13, 1>>
BoxY == <<7, 0, 20, 1>>
BoxZ == <<3, 0, 17, 1>>
BoxW == <<30, 0, 40, 1>>
BoxV == <<0, 0, 20, 10>>

PlateDetections ==
    { [type |-> "plate", bbox |-> BoxX, conf |-> 90],
      [type |-> "plate", bbox |-> BoxY, conf |-> 80],
      [type |-> "plate", bbox |-> BoxZ, conf |-> 70] }

VehicleDetections == { [type |-> "vehicle", bbox |-> BoxV, conf |-> 95] }

FarDetections == { [type |-> "plate", bbox |-> BoxW, conf |-> 90] }

\* Each detection is an object of the loaded detection data: getDetections
\* returns frame.detections itself, so a frame that is processed again hands
\* the tracker the same objects, and a history holds the object, not a copy.
DetectionPool == PlateDetections \cup VehicleDetections \cup FarDetections

\* sample times (ms) handed to update; the gaps 17, 330 and 347 lie on both
\* sides of the finishing rule of handleLostTracks
SampleTimes == {0, 17, 347}

\* the lists of the short runs: up to MaxDets plates whose boxes overlap
DetectionLists == UNION { [1..n -> PlateDetections] : n \in 0..MaxDets }

\* the lists of the long runs: nothing, or one detection of any kind
SingleDetectionLists == { <<>> } \cup { <<d>> : d \in DetectionPool }

\* the lists of the runs that fill the tracker with finished tracks: plates
\* at X, W and V, whose boxes overlap too little to match one another
EvictDetectionLists ==
    { << [type |-> "plate", bbox |-> BoxX, conf |-> 90],
         [type |-> "plate", bbox |-> BoxW, conf |-> 90] >>,
      << [type |-> "plate", bbox |-> BoxV, conf |-> 90] >>,
      << [type |-> "plate", bbox |-> BoxX, conf |-> 90] >> }

\* the sample times of those runs advance by this much per cycle, more
\* than a lost track survives
EvictPeriodMs == 400

\* the lists of the runs that are followed until every track has finished:
\* two plates each, no box of one list matching a box of the other
LiveDetectionLists ==
    { << [type |-> "plate", bbox |-> BoxX, conf |-> 90],
         [type |-> "plate", bbox |-> BoxW, conf |-> 90] >>,
      << [type |-> "plate", bbox |-> BoxV, conf |-> 90],
         [type |-> "plate", bbox |-> BoxY, conf |-> 80] >> }

\* by how much the sample time advances in a cycle without detections
AgeSteps == {100, 200}

Max(a, b) == IF a >= b THEN a ELSE b
Min(a, b) == IF a <= b THEN a ELSE b

\* String(n) for a non-negative integer: its decimal digits
DecimalStringMutLastDigit(n) == <<n % 10>>

RECURSIVE DecimalString(_)
DecimalString(n) ==
    IF n < 10 THEN <<n>> ELSE Append(DecimalString(n \div 10), n % 10)

\* calculateIOU: the quotient intersectionArea / unionArea as the pair
\* <<intersectionArea, unionArea>>; "return 0" is <<0, 1>>
calculateIOU(bbox1, bbox2) ==
    LET xLeft   == Max(bbox1[1], bbox2[1])
        yTop    == Max(bbox1[2], bbox2[2])
        xRight  == Min(bbox1[3], bbox2[3])
        yBottom == Min(bbox1[4], bbox2[4])
        intersectionArea == (xRight - xLeft) * (yBottom - yTop)
        area1 == (bbox1[3] - bbox1[1]) * (bbox1[4] - bbox1[2])
        area2 == (bbox2[3] - bbox2[1]) * (bbox2[4] - bbox2[2])
        unionArea == area1 + area2 - intersectionArea
    IN  IF xRight < xLeft \/ yBottom < yTop
        THEN <<0, 1>>
        ELSE <<intersectionArea, unionArea>>

\* a > b for two quotients with positive denominators
QuotGT(a, b) == a[1] * b[2] > b[1] * a[2]

IouThreshold == <<IouThresholdNum, IouThresholdDen>>

\* the test of the inner forEach of update: does this track replace bestMatch?
BetterMatchMutGE(iou, bestIOU) ==
    /\ QuotGT(iou, IouThreshold)
    /\ ~QuotGT(bestIOU, iou)

BetterMatchMutFirst(iou, bestIOU) ==
    /\ QuotGT(iou, IouThreshold)
    /\ bestIOU[1] = 0

BetterMatch(iou, bestIOU) ==
    /\ QuotGT(iou, IouThreshold)
    /\ QuotGT(iou, bestIOU)

\* may the inner forEach of update consider this track at all?
IsCandidateMutAll(track) == TRUE

IsCandidateMutLostOnly(track) == track.status = "lost"

IsCandidate(track) == track.status # "finished"

\* the inner forEach of update over the Map in insertion order, from entry i
\* on; best is the index of bestMatch (0 = null), bestIOU its IoU
RECURSIVE FindBestMatch(_, _, _, _, _)
FindBestMatch(ts, detection, i, best, bestIOU) ==
    IF i > Len(ts) THEN best
    ELSE IF ~IsCandidate(ts[i])
         THEN FindBestMatch(ts, detection, i + 1, best, bestIOU)
         ELSE LET iou == calculateIOU(detection.bbox, ts[i].bbox)
              IN  IF BetterMatch(iou, bestIOU)
                  THEN FindBestMatch(ts, detection, i + 1, i, iou)
                  ELSE FindBestMatch(ts, detection, i + 1, best, bestIOU)

\* createTrack: the new Map entry (the running confidence, a floating-point
\* smoothing that no decision reads, is not part of the model)
createTrack(id, detection, timeMs) ==
    [ id         |-> DecimalString(id),
      status     |-> "active",
      startTime  |-> timeMs,
      lastSeen   |-> timeMs,
      detections |-> <<detection>>,
      bbox       |-> detection.bbox ]

updateTrackMutKeepBox(track, detection, timeMs) ==
    [ track EXCEPT !.status     = "active",
                   !.lastSeen   = timeMs,
                   !.detections = Append(@, detection) ]

updateTrack(track, detection, timeMs) ==
    [ track EXCEPT !.status     = "active",
                   !.lastSeen   = timeMs,
                   !.detections = Append(@, detection),
                   !.bbox       = detection.bbox ]

\* first loop of update: every active track becomes lost
MarkLostMutKeep(ts) == ts

MarkLost(ts) ==
    [ i \in 1..Len(ts) |->
        IF ts[i].status = "active" THEN [ts[i] EXCEPT !.status = "lost"]
                                   ELSE ts[i] ]

\* the matching loop of update from detection k on.  st carries the tracks,
\* the indices of the unmatched detections, the trackId written to each
\* detection so far and, per plate detection, the tracks as they stood when
\* it was processed.
RECURSIVE MatchDetections(_, _, _, _)
MatchDetections(detections, timeMs, k, st) ==
    IF k > Len(detections) THEN st
    ELSE IF detections[k].type # "plate"
         THEN MatchDetections(detections, timeMs, k + 1, st)
         ELSE LET bestMatch == FindBestMatch(st.tracks, detections[k], 1, 0, <<0, 1>>)
                  step == [ k |-> k, before |-> st.tracks,
                            match |-> IF bestMatch = 0 THEN NoTrackId
                                      ELSE st.tracks[bestMatch].id ]
              IN  IF bestMatch # 0
                  THEN MatchDetections(detections, timeMs, k + 1,
                         [ st EXCEPT
                             !.tracks = [ @ EXCEPT ![bestMatch] =
                                 updateTrack(@, detections[k], timeMs) ],
                             !.stamps = [ @ EXCEPT ![k] = st.tracks[bestMatch].id ],
                             !.steps  = Append(@, step) ])
                  ELSE MatchDetections(detections, timeMs, k + 1,
                         [ st EXCEPT
                             !.unmatched = Append(@, k),
                             !.steps     = Append(@, step) ])

\* the second loop of update: one new track per unmatched detection
RECURSIVE CreateTracks(_, _, _, _)
CreateTracks(detections, timeMs, j, st) ==
    IF j > Len(st.unmatched) THEN st
    ELSE LET k == st.unmatched[j]
             newTrack == createTrack(st.nextTrackId, detections[k], timeMs)
         IN  CreateTracks(detections, timeMs, j + 1,
               [ st EXCEPT !.tracks      = Append(@, newTrack),
                           !.nextTrackId = @ + 1,
                           !.stamps      = [ @ EXCEPT ![k] = newTrack.id ] ])

\* Math.round(x / FramePeriodMs) for an integer x: floor(x/33 + 1/2)
RoundFrames(x) == (2 * x + FramePeriodMs) \div (2 * FramePeriodMs)

\* the test of handleLostTracks on a lost track
LostTooLongMutGE(track, timeMs) ==
    RoundFrames(timeMs - track.lastSeen) >= maxLostFrames

LostTooLongMutNever(track, timeMs) ==
    RoundFrames(track.lastSeen - timeMs) > maxLostFrames

LostTooLong(track, timeMs) ==
    RoundFrames(timeMs - track.lastSeen) > maxLostFrames

\* first loop of handleLostTracks: indices of the tracks that get finished
TracksToFinish(ts, timeMs) ==
    { i \in 1..Len(ts) : ts[i].status = "lost" /\ LostTooLong(ts[i], timeMs) }

MarkFinished(ts, timeMs) ==
    [ i \in 1..Len(ts) |->
        IF i \in TracksToFinish(ts, timeMs)
        THEN [ts[i] EXCEPT !.status = "finished"] ELSE ts[i] ]

\* position (from 0) of entry i in finishedTracks, the finished tracks sorted
\* by descending lastSeen; Array.prototype.sort is stable, so equal lastSeen
\* keep the Map order
FinishedRank(ts, i) ==
    Cardinality({ j \in 1..Len(ts) :
        /\ ts[j].status = "finished"
        /\ \/ ts[j].lastSeen > ts[i].lastSeen
           \/ ts[j].lastSeen = ts[i].lastSeen /\ j < i })

\* is entry i deleted by finishedTracks.slice(10).forEach(delete)?
EvictedMutOldestKept(ts, i) ==
    /\ ts[i].status = "finished"
    /\ Cardinality({ j \in 1..Len(ts) :
          /\ ts[j].status = "finished"
          /\ \/ ts[j].lastSeen < ts[i].lastSeen
             \/ ts[j].lastSeen = ts[i].lastSeen /\ j < i }) >= FinishedRetention

Evicted(ts, i) ==
    /\ ts[i].status = "finished"
    /\ FinishedRank(ts, i) >= FinishedRetention

\* second part of handleLostTracks: the Map without the evicted entries
RECURSIVE DeleteEvicted(_, _)
DeleteEvicted(marked, i) ==
    IF i > Len(marked) THEN <<>>
    ELSE IF Evicted(marked, i) THEN DeleteEvicted(marked, i + 1)
         ELSE <<marked[i]>> \o DeleteEvicted(marked, i + 1)

handleLostTracks(ts, timeMs) == DeleteEvicted(MarkFinished(ts, timeMs), 1)

getActiveTracksMutNotFinished(ts) ==
    SelectSeq(ts, LAMBDA t : t.status # "finished")

getActiveTracks(ts) == SelectSeq(ts, LAMBDA t : t.status = "active")

\* TrackerSimple.update(detections, timeMs)
update(detections, timeMs) ==
    LET st0 == [ tracks      |-> MarkLost(tracks),
              nextTrackId |-> nextTrackId,
              unmatched   |-> <<>>,
              stamps      |-> [ k \in 1..Len(detections) |-> NoTrackId ],
              steps       |-> <<>> ]
        st1 == MatchDetections(detections, timeMs, 1, st0)
        st2 == CreateTracks(detections, timeMs, 1, st1)
        after == handleLostTracks(st2.tracks, timeMs)
    IN  /\ frameCount' = frameCount + 1
        /\ tracks' = after
        /\ nextTrackId' = st2.nextTrackId
        /\ lastUpdate' =
             [ detections     |-> detections,
               timeMs         |-> timeMs,
               steps          |-> st1.steps,
               stamps         |-> st2.stamps,
               beforeLost     |-> st2.tracks,
               tracksToFinish |-> { st2.tracks[i].id :
                                   i \in TracksToFinish(st2.tracks, timeMs) },
               returned       |-> getActiveTracks(after) ]

NoUpdate ==
    [ detections |-> <<>>, timeMs |-> 0, steps |-> <<>>, stamps |-> <<>>,
      beforeLost |-> <<>>, tracksToFinish |-> {}, returned |-> <<>> ]

TrackerInit ==
    /\ tracks = <<>>
    /\ nextTrackId = 1
    /\ frameCount = 0
    /\ lastUpdate = NoUpdate

\* a cycle with any list of up to MaxDets detections while the video plays:
\* one nominal frame period after the cycle before
Update ==
    /\ frameCount < MaxFrames
    /\ \E detections \in DetectionLists :
           update(detections, frameCount * FramePeriodMs)
    /\ UNCHANGED exceptTracker

\* a cycle with at most one detection
LongUpdate ==
    /\ frameCount < MaxLongFrames
    /\ \E detections \in SingleDetectionLists, timeMs \in SampleTimes :
           update(detections, timeMs)
    /\ UNCHANGED exceptTracker

\* a cycle of a run in which every unmatched track finishes at once
EvictUpdate ==
    /\ frameCount < MaxEvictFrames
    /\ \E detections \in EvictDetectionLists :
           update(detections, frameCount * EvictPeriodMs)
    /\ UNCHANGED exceptTracker

\* a cycle with detections, as long as every cycle so far had some
LiveFeedUpdate ==
    /\ frameCount < MaxLiveFrames
    /\ frameCount = 0 \/ lastUpdate.detections # <<>>
    /\ \E detections \in LiveDetectionLists :
           update(detections, lastUpdate.timeMs + EvictPeriodMs)
    /\ UNCHANGED exceptTracker

\* the cycles of the smallest step after which an unmatched track is finished
AgeCycles ==
    CHOOSE k \in 1..(2 * maxLostFrames) :
        /\ RoundFrames(k * 100) > maxLostFrames
        /\ RoundFrames((k - 1) * 100) <= maxLostFrames

\* a track is still active or lost and the run has cycles left
AgeEnabled ==
    /\ frameCount < MaxLiveFrames + MaxStallFrames + AgeCycles
    /\ \E i \in 1..Len(tracks) : tracks[i].status # "finished"

\* a cycle without detections at a later sample time
AgeUpdate ==
    /\ AgeEnabled
    /\ \E step \in AgeSteps : update(<<>>, lastUpdate.timeMs + step)
    /\ UNCHANGED exceptTracker

\* a cycle without detections at the sample time of the cycle before (the
\* video is paused)
StallUpdate ==
    /\ frameCount < MaxLiveFrames + MaxStallFrames
    /\ update(<<>>, lastUpdate.timeMs)
    /\ UNCHANGED exceptTracker

----------------------------------------------------------------------------
(* SessionManager                                                          *)

\* defaults of the configuration fields
DefaultMaxSessionFrames == 20
DefaultDisappearThreshold == 5000
DefaultMinSessionFrames == 3
\* default maxAge of clearOldSessions
DefaultMaxAge == 30000

DefaultSessionConfig ==
    [ maxSessionFrames   |-> DefaultMaxSessionFrames,
      disappearThreshold |-> DefaultDisappearThreshold,
      minSessionFrames   |-> DefaultMinSessionFrames ]

\* track.id.toString() of the tracks handed to the manager
SessionTrackIds == { DecimalString(1) }

\* pipeline sample times (ms) around the default disappearThreshold
SessionTimes == {0, 4999, 5000}

\* a CropImage, reduced to its cropId
Crops == 1..MaxCropId

\* the optional cropImage argument: absent, or one crop
CropArgs == { <<>> } \cup { <<c>> : c \in Crops }

\* Date.now(): milliseconds since 1970.  Real values (about 1.7 * 10^12) are
\* beyond the integers of the model checker; these stand for them, and like
\* them they exceed every sample time by far more than any threshold.
DateNowValues == {2000000000, 2000000001}

\* the Map without the entry of trackId
MapDelete(map, trackId) == [ k \in DOMAIN map \ {trackId} |-> map[k] ]

\* the Map with the entry of trackId set
MapSet(map, trackId, value) ==
    [ k \in DOMAIN map \cup {trackId} |-> IF k = trackId THEN value ELSE map[k] ]

\* may finalizeSession act on this session?
IsOpenMutAny(session) == TRUE

IsOpen(session) == session.status = "active"

\* the minimum frame requirement of finalizeSession
TooShortMutNever(session, config) == FALSE

TooShort(session, config) == Len(session.crops) < config.minSessionFrames

\* finalizeSession(trackId, reason): the sessions afterwards and the value
\* returned (<<>> is null, <<s>> the session s)
finalizeSession(ss, config, trackId) ==
    IF trackId \notin DOMAIN ss \/ ~IsOpen(ss[trackId])
    THEN [ sessions |-> ss, ret |-> <<>> ]
    ELSE IF TooShort(ss[trackId], config)
         THEN [ sessions |-> MapDelete(ss, trackId), ret |-> <<>> ]
         ELSE LET session == [ ss[trackId] EXCEPT !.status = "finalized" ]
              IN  [ sessions |-> MapSet(ss, trackId, session), ret |-> <<session>> ]

createSession(ss, trackId, timeMs, cropImage) ==
    MapSet(ss, trackId,
           [ trackId |-> trackId,
             startMs |-> timeMs,
             endMs   |-> timeMs,
             crops   |-> cropImage,
             status  |-> "active" ])

updateSessionMutPrepend(ss, config, trackId, timeMs, cropImage) ==
    IF trackId \notin DOMAIN ss THEN ss
    ELSE LET session == [ ss[trackId] EXCEPT !.endMs = timeMs,
                                             !.crops = cropImage \o @ ]
             pushed == MapSet(ss, trackId, session)
         IN  IF cropImage # <<>> /\ Len(session.crops) >= config.maxSessionFrames
             THEN finalizeSession(pushed, config, trackId).sessions
             ELSE pushed

updateSession(ss, config, trackId, timeMs, cropImage) ==
    IF trackId \notin DOMAIN ss THEN ss
    ELSE LET session == [ ss[trackId] EXCEPT !.endMs = timeMs,
                                             !.crops = @ \o cropImage ]
             pushed == MapSet(ss, trackId, session)
         IN  IF cropImage # <<>> /\ Len(session.crops) >= config.maxSessionFrames
             THEN finalizeSession(pushed, config, trackId).sessions
             ELSE pushed

\* the session of trackId as a list: <<>> when there is none
SessionOf(ss, trackId) == IF trackId \in DOMAIN ss THEN <<ss[trackId]>> ELSE <<>>

\* what is observed of a call: the operation, its arguments, the session of
\* trackId as the call found it, and the value returned
NoSessionCall ==
    [ op |-> "none", trackId |-> <<>>, before |-> <<>>, ret |-> <<>>,
      lastSeen |-> 0, sampleTime |-> 0, cropImage |-> <<>> ]

\* SessionManager.update(track, detection, timeMs, cropImage?)
SessionUpdate(trackId, timeMs, cropImage) ==
    /\ IF trackId \in DOMAIN sessions
       THEN Len(sessions[trackId].crops) + Len(cropImage) <= MaxCrops
       ELSE TRUE
    /\ sessions' = IF trackId \notin DOMAIN sessions
                   THEN createSession(sessions, trackId, timeMs, cropImage)
                   ELSE updateSession(sessions, sessionConfig, trackId, timeMs, cropImage)
    /\ lastSession' = [ NoSessionCall EXCEPT !.op = "update", !.trackId = trackId,
                                             !.before = SessionOf(sessions, trackId),
                                             !.sampleTime = timeMs,
                                             !.cropImage = cropImage ]
    /\ UNCHANGED sessionConfig

\* SessionManager.handleTrackLost(trackId, lastSeen), called in the cycle of
\* sample time sampleTime while Date.now() is now
handleTrackLost(trackId, lastSeen, sampleTime, now) ==
    /\ lastSeen <= sampleTime
    /\ LET timeSinceLastSeen == now - lastSeen
       IN  sessions' =
             IF trackId \notin DOMAIN sessions \/ sessions[trackId].status # "active"
             THEN sessions
             ELSE IF timeSinceLastSeen >= sessionConfig.disappearThreshold
                  THEN finalizeSession(sessions, sessionConfig, trackId).sessions
                  ELSE sessions
    /\ lastSession' = [ NoSessionCall EXCEPT !.op = "handleTrackLost",
                                             !.trackId = trackId,
                                             !.before = SessionOf(sessions, trackId),
                                             !.lastSeen = lastSeen,
                                             !.sampleTime = sampleTime ]
    /\ UNCHANGED sessionConfig

\* SessionManager.finalizeSession(trackId, reason) called from outside
FinalizeSession(trackId) ==
    /\ LET r == finalizeSession(sessions, sessionConfig, trackId)
       IN  /\ sessions' = r.sessions
           /\ lastSession' = [ NoSessionCall EXCEPT !.op = "finalizeSession",
                                                    !.trackId = trackId,
                                                    !.before = SessionOf(sessions, trackId),
                                                    !.ret = r.ret ]
    /\ UNCHANGED sessionConfig

\* SessionManager.clearOldSessions(maxAge) while Date.now() is now
clearOldSessions(maxAge, now) ==
    /\ LET cutoff == now - maxAge
           toDelete == { k \in DOMAIN sessions :
                           sessions[k].endMs < cutoff /\ sessions[k].status = "finalized" }
       IN  sessions' = [ k \in DOMAIN sessions \ toDelete |-> sessions[k] ]
    /\ lastSession' = [ NoSessionCall EXCEPT !.op = "clearOldSessions" ]
    /\ UNCHANGED sessionConfig

\* SessionManager.reset()
SessionReset ==
    /\ sessions' = << >>
    /\ lastSession' = [ NoSessionCall EXCEPT !.op = "reset" ]
    /\ UNCHANGED sessionConfig

\* new SessionManager(logger): the default configuration
SessionManagerDefault ==
    /\ sessions = << >>
    /\ sessionConfig = DefaultSessionConfig
    /\ lastSession = NoSessionCall

\* new SessionManager(logger, config) with small frame limits
SessionManagerInit ==
    /\ sessions = << >>
    /\ sessionConfig \in
         { [ DefaultSessionConfig EXCEPT !.maxSessionFrames = mx,
                                         !.minSessionFrames = mn ] :
             mx \in 1..MaxCap, mn \in 1..MaxCap }
    /\ lastSession = NoSessionCall

SessionUpdateCall ==
    /\ \E trackId \in SessionTrackIds, timeMs \in SessionTimes, cropImage \in CropArgs :
          SessionUpdate(trackId, timeMs, cropImage)
    /\ UNCHANGED exceptSession

HandleTrackLostCall ==
    /\ \E trackId \in SessionTrackIds, lastSeen \in SessionTimes,
          sampleTime \in SessionTimes, now \in DateNowValues :
          handleTrackLost(trackId, lastSeen, sampleTime, now)
    /\ UNCHANGED exceptSession

FinalizeSessionCall ==
    /\ \E trackId \in SessionTrackIds : FinalizeSession(trackId)
    /\ UNCHANGED exceptSession

ClearOldSessionsCall ==
    /\ \E now \in DateNowValues : clearOldSessions(DefaultMaxAge, now)
    /\ UNCHANGED exceptSession

SessionResetCall ==
    /\ SessionReset
    /\ UNCHANGED exceptSession

----------------------------------------------------------------------------
(* Deduplicator                                                            *)

DefaultMaxHistorySize == 100
\* 5 minutes and 3 minutes, in ms
sameDirectionWindow == 5 * 60 * 1000
oppositeDirectionWindow == 3 * 60 * 1000

\* An event's timestamp is an ISO date string; the model keeps the part of it
\* that varies, minutes and milliseconds within the minute.
Timestamps ==
    { [min |-> 0, ms |-> 0], [min |-> 0, ms |-> 1],
      [min |-> 3, ms |-> 1], [min |-> 5, ms |-> 1] }

\* new Date(timestamp).getTime()
DateGetTime(timestamp) == timestamp.min * 60000 + timestamp.ms

Abs(x) == IF x < 0 THEN 0 - x ELSE x

\* the events handed to checkDuplicate: plate, direction, wall-clock
\* timestamp and sample time timeMs, the last two set independently
Plates == {"P1", "P2"}
Directions == {"ENTRY", "EXIT"}
EventTimes == {0, 7000}

Events == [ plate : Plates, status : Directions,
            timestamp : Timestamps, timeMs : EventTimes ]

\* the filter of checkDuplicate: is the history event within the window
\* that applies to its direction and the new event's?
InWindowMutSameOnly(event, newEvent) ==
    Abs(DateGetTime(newEvent.timestamp) - DateGetTime(event.timestamp))
        <= sameDirectionWindow

InWindowMutOppositeOnly(event, newEvent) ==
    Abs(DateGetTime(newEvent.timestamp) - DateGetTime(event.timestamp))
        <= oppositeDirectionWindow

InWindow(event, newEvent) ==
    LET now == DateGetTime(newEvent.timestamp)
        eventTime == DateGetTime(event.timestamp)
        timeDiff == Abs(now - eventTime)
    IN  IF event.status = newEvent.status
        THEN timeDiff <= sameDirectionWindow
        ELSE timeDiff <= oppositeDirectionWindow

\* relevantEvents.find(plate match): the index in recentEvents of the first
\* relevant event with the new event's plate, from index i on; 0 is undefined
RECURSIVE FindDuplicate(_, _, _)
FindDuplicate(history, newEvent, i) ==
    IF i > Len(history) THEN 0
    ELSE IF InWindow(history[i], newEvent) /\ history[i].plate = newEvent.plate
         THEN i
         ELSE FindDuplicate(history, newEvent, i + 1)

\* Math.round(x / 1000) for x >= 0
RoundSeconds(x) == (x + 500) \div 1000

\* addToHistory
addToHistoryMutDropNewest(history, event, maxSize) ==
    IF Len(history) + 1 > maxSize THEN history ELSE Append(history, event)

addToHistory(history, event, maxSize) ==
    LET pushed == Append(history, event)
    IN  IF Len(pushed) > maxSize THEN Tail(pushed) ELSE pushed

NoEvent == <<>>

\* what is observed of a call: the event handed over and the
\* DeduplicationResult (previousEvent as a list, <<>> when absent;
\* reasonSeconds is the number in the reason string), and the event that
\* recentEvents.shift() took out, as a list
NoCheck ==
    [ op |-> "none", newEvent |-> NoEvent, isDuplicate |-> FALSE,
      previousEvent |-> <<>>, timeDiff |-> 0, reasonSeconds |-> 0,
      shifted |-> <<>> ]

\* Deduplicator.checkDuplicate(newEvent)
checkDuplicateMutAlwaysAdd(newEvent) ==
    LET found == FindDuplicate(recentEvents, newEvent, 1)
    IN  /\ recentEvents' = addToHistory(recentEvents, newEvent, maxHistorySize)
        /\ lastCheck' = [ NoCheck EXCEPT !.op = "checkDuplicate",
                                         !.newEvent = <<newEvent>>,
                                         !.isDuplicate = found # 0,
                                         !.previousEvent =
                                             IF found # 0
                                             THEN <<recentEvents[found]>>
                                             ELSE <<>> ]

checkDuplicateMutSlidingWindow(newEvent) ==
    LET found == FindDuplicate(recentEvents, newEvent, 1)
    IN  /\ recentEvents' = addToHistory(recentEvents, newEvent, maxHistorySize)
        /\ lastCheck' = [ NoCheck EXCEPT
                            !.op = "checkDuplicate",
                            !.newEvent = <<newEvent>>,
                            !.isDuplicate = found # 0,
                            !.previousEvent = IF found # 0
                                              THEN <<recentEvents[found]>>
                                              ELSE <<>>,
                            !.timeDiff = IF found # 0
                                         THEN Abs(newEvent.timeMs
                                                  - recentEvents[found].timeMs)
                                         ELSE 0 ]

checkDuplicate(newEvent) ==
    LET newEventTime == newEvent.timeMs
        found == FindDuplicate(recentEvents, newEvent, 1)
    IN  IF found # 0
        THEN LET duplicateEvent == recentEvents[found]
                 timeDiff == Abs(newEventTime - duplicateEvent.timeMs)
             IN  /\ recentEvents' = recentEvents
                 /\ lastCheck' = [ op |-> "checkDuplicate",
                                   newEvent |-> <<newEvent>>,
                                   isDuplicate |-> TRUE,
                                   previousEvent |-> <<duplicateEvent>>,
                                   timeDiff |-> timeDiff,
                                   reasonSeconds |-> RoundSeconds(timeDiff),
                                   shifted |-> <<>> ]
        ELSE /\ recentEvents' = addToHistory(recentEvents, newEvent, maxHistorySize)
             /\ lastCheck' = [ NoCheck EXCEPT
                                 !.op = "checkDuplicate",
                                 !.newEvent = <<newEvent>>,
                                 !.shifted =
                                     IF Len(recentEvents) + 1 > maxHistorySize
                                     THEN <<Append(recentEvents, newEvent)[1]>>
                                     ELSE <<>> ]

\* Deduplicator.clearHistory()
clearHistory ==
    /\ recentEvents' = <<>>
    /\ lastCheck' = [ NoCheck EXCEPT !.op = "clearHistory" ]

\* new Deduplicator(logger): the default configuration
DeduplicatorDefault ==
    /\ recentEvents = <<>>
    /\ maxHistorySize = DefaultMaxHistorySize
    /\ lastCheck = NoCheck

\* new Deduplicator(logger, {maxHistorySize}) with a small history
DeduplicatorInit ==
    /\ recentEvents = <<>>
    /\ maxHistorySize \in 1..MaxHistory
    /\ lastCheck = NoCheck

\* new Deduplicator(logger, {maxHistorySize}) with a history of a few events
DeduplicatorLongInit ==
    /\ recentEvents = <<>>
    /\ maxHistorySize \in 1..MaxLongHistory
    /\ lastCheck = NoCheck

\* the events of the runs that fill the history: two plates, for each a
\* second event too late to be a duplicate of the first, and an event of
\* the first plate between its two others
HistoryEvents ==
    { [ plate |-> "P1", status |-> "ENTRY",
        timestamp |-> [min |-> 0, ms |-> 0], timeMs |-> 0 ],
      [ plate |-> "P1", status |-> "ENTRY",
        timestamp |-> [min |-> 3, ms |-> 1], timeMs |-> 7000 ],
      [ plate |-> "P2", status |-> "ENTRY",
        timestamp |-> [min |-> 0, ms |-> 0], timeMs |-> 0 ],
      [ plate |-> "P1", status |-> "ENTRY",
        timestamp |-> [min |-> 5, ms |-> 1], timeMs |-> 7000 ],
      [ plate |-> "P2", status |-> "EXIT",
        timestamp |-> [min |-> 3, ms |-> 1], timeMs |-> 7000 ] }

HistoryCheckCall ==
    /\ \E newEvent \in HistoryEvents : checkDuplicate(newEvent)
    /\ UNCHANGED <<maxHistorySize, exceptDedup>>

\* the minutes between two sightings of a series, each shorter than
\* sameDirectionWindow
SeriesSteps == {1, 2, 4}

\* the sighting of a plate with a direction at a minute
SeriesEvent(plate, status, min) ==
    [ plate |-> plate, status |-> status,
      timestamp |-> [min |-> min, ms |-> 0], timeMs |-> min * 60000 ]

\* the next sighting of a series is handed to checkDuplicate: the first is
\* of any plate and direction, the later ones repeat both
SeriesCheckCall ==
    /\ IF lastCheck.op = "none"
       THEN \E plate \in Plates, status \in Directions :
              checkDuplicate(SeriesEvent(plate, status, 0))
       ELSE \E step \in SeriesSteps :
              LET before == lastCheck.newEvent[1]
                  min == before.timestamp.min + step
              IN  /\ min <= MaxSeriesMinutes
                  /\ checkDuplicate(SeriesEvent(before.plate, before.status, min))
    /\ UNCHANGED <<maxHistorySize, exceptDedup>>

CheckDuplicateCall ==
    /\ \E newEvent \in Events : checkDuplicate(newEvent)
    /\ UNCHANGED <<maxHistorySize, exceptDedup>>

ClearHistoryCall ==
    /\ clearHistory
    /\ UNCHANGED <<maxHistorySize, exceptDedup>>

----------------------------------------------------------------------------
(* Voter                                                                   *)

\* A text is the list of its UTF-16 code units.  The characters used:
Ka == 2453          \* U+0995, a Bengali letter
Nukta == 2492       \* U+09BC, Bengali, outside the ranges of isBengaliLetter
DigitOne == 2535    \* U+09E7, a Bengali digit
Hyphen == 45
Space == 32
LatinA == 65

\* three candidate texts
TextA == <<LatinA>>
TextB == <<LatinA + 1>>
TextC == <<LatinA + 2>>

\* OCR candidates: a text and a confidence, in percent (sums of the values
\* used are exact, as sums of small integers are in double arithmetic)
OCRCandidates ==
    { [text |-> TextA, conf |-> 80], [text |-> TextB, conf |-> 80],
      [text |-> TextC, conf |-> 50], [text |-> TextC, conf |-> 95] }

\* the candidate list of one crop: empty, one candidate, or two
CropCandidates ==
    { <<>> } \cup { <<c>> : c \in OCRCandidates }
             \cup { <<c, d>> : c \in OCRCandidates, d \in OCRCandidates }

\* candidates.flat()
RECURSIVE Flat(_)
Flat(candidates) ==
    IF candidates = <<>> THEN <<>>
    ELSE Head(candidates) \o Flat(Tail(candidates))

\* the keys of textGroups in insertion order, after the first n candidates
RECURSIVE GroupKeys(_, _)
GroupKeys(allCandidates, n) ==
    IF n = 0 THEN <<>>
    ELSE LET keys == GroupKeys(allCandidates, n - 1)
             text == allCandidates[n].text
         IN  IF \E i \in 1..Len(keys) : keys[i] = text
             THEN keys ELSE Append(keys, text)

\* the confidences array of the group of text
Confidences(allCandidates, text) ==
    LET group == SelectSeq(allCandidates, LAMBDA c : c.text = text)
    IN  [ i \in 1..Len(group) |-> group[i].conf ]

RECURSIVE SumOf(_)
SumOf(confidences) ==
    IF confidences = <<>> THEN 0 ELSE Head(confidences) + SumOf(Tail(confidences))

\* Math.max(...confidences) of a non-empty array
RECURSIVE MaxOf(_)
MaxOf(confidences) ==
    IF Len(confidences) = 1 THEN confidences[1]
    ELSE Max(Head(confidences), MaxOf(Tail(confidences)))

\* one entry of voteCandidates; avgConfidence is totalConfidence / count,
\* kept as that pair
VoteCandidateMutMax(allCandidates, text) ==
    LET confidences == Confidences(allCandidates, text)
    IN  [ text            |-> text,
          count           |-> Len(confidences),
          avgConfidence   |-> <<MaxOf(confidences), 1>>,
          maxConfidence   |-> MaxOf(confidences),
          totalConfidence |-> SumOf(confidences) ]

VoteCandidate(allCandidates, text) ==
    LET confidences == Confidences(allCandidates, text)
    IN  [ text            |-> text,
          count           |-> Len(confidences),
          avgConfidence   |-> <<SumOf(confidences), Len(confidences)>>,
          maxConfidence   |-> MaxOf(confidences),
          totalConfidence |-> SumOf(confidences) ]

\* the comparators of the three sorts: is b to be placed before a?
SortsBeforeMutGE(b, a, key) ==
    IF key = "count" THEN b.count >= a.count
    ELSE IF key = "avgConfidence" THEN ~QuotGT(a.avgConfidence, b.avgConfidence)
    ELSE b.maxConfidence >= a.maxConfidence

SortsBefore(b, a, key) ==
    IF key = "count" THEN b.count > a.count
    ELSE IF key = "avgConfidence" THEN QuotGT(b.avgConfidence, a.avgConfidence)
    ELSE b.maxConfidence > a.maxConfidence

\* Array.prototype.sort with such a comparator (a stable sort): x is put
\* before the first element it sorts before
RECURSIVE InsertSorted(_, _, _)
InsertSorted(sorted, x, key) ==
    IF sorted = <<>> THEN <<x>>
    ELSE IF SortsBefore(x, Head(sorted), key) THEN <<x>> \o sorted
         ELSE <<Head(sorted)>> \o InsertSorted(Tail(sorted), x, key)

RECURSIVE SortBy(_, _)
SortBy(list, key) ==
    IF list = <<>> THEN <<>>
    ELSE InsertSorted(SortBy(SubSeq(list, 1, Len(list) - 1), key),
                      list[Len(list)], key)

\* is there a clear frequency winner?
ClearFrequencyWinnerMutGE(voteCandidates) ==
    \/ Len(voteCandidates) = 1
    \/ voteCandidates[1].count >= voteCandidates[2].count

ClearFrequencyWinner(voteCandidates) ==
    IF Len(voteCandidates) = 1 THEN TRUE
    ELSE voteCandidates[1].count > voteCandidates[2].count

\* the winner and the method chosen from the sorted voteCandidates
ChooseWinner(voteCandidates) ==
    IF ClearFrequencyWinner(voteCandidates)
    THEN [ winner |-> voteCandidates[1], method |-> "frequency" ]
    ELSE LET tiedCandidates ==
                 SelectSeq(voteCandidates,
                           LAMBDA c : c.count = voteCandidates[1].count)
             byAvg == SortBy(tiedCandidates, "avgConfidence")
         IN  IF Len(byAvg) = 1
             THEN [ winner |-> byAvg[1], method |-> "confidence" ]
             ELSE IF QuotGT(byAvg[1].avgConfidence, byAvg[2].avgConfidence)
                  THEN [ winner |-> byAvg[1], method |-> "confidence" ]
                  ELSE [ winner |-> SortBy(byAvg, "maxConfidence")[1],
                         method |-> "tiebreak" ]

\* createEmptyResult
createEmptyResultMutTiebreak ==
    [ winner |-> <<>>, confidence |-> <<0, 1>>, votes |-> <<>>,
      method |-> "tiebreak", candidates |-> <<>> ]

createEmptyResult ==
    [ winner |-> <<>>, confidence |-> <<0, 1>>, votes |-> <<>>,
      method |-> "frequency", candidates |-> <<>> ]

\* Voter.vote(candidates): the VoteResult; votes is the tally as the list of
\* its entries <<text, count>>
vote(candidates) ==
    IF Len(candidates) = 0 THEN createEmptyResult
    ELSE LET allCandidates == Flat(candidates)
         IN  IF Len(allCandidates) = 0 THEN createEmptyResult
             ELSE LET keys == GroupKeys(allCandidates, Len(allCandidates))
                      grouped == [ i \in 1..Len(keys) |->
                                     VoteCandidate(allCandidates, keys[i]) ]
                      voteCandidates == SortBy(grouped, "count")
                      chosen == ChooseWinner(voteCandidates)
                  IN  [ winner     |-> chosen.winner.text,
                        confidence |-> chosen.winner.avgConfidence,
                        votes      |-> [ i \in 1..Len(voteCandidates) |->
                                           << voteCandidates[i].text,
                                              voteCandidates[i].count >> ],
                        method     |-> chosen.method,
                        candidates |-> [ i \in 1..Len(voteCandidates) |->
                            [ text          |-> voteCandidates[i].text,
                              count         |-> voteCandidates[i].count,
                              avgConfidence |-> voteCandidates[i].avgConfidence,
                              maxConfidence |-> voteCandidates[i].maxConfidence ] ] ]

\* what is observed of a vote: the input and the result
NoVote == [ op |-> "none", candidates |-> <<>>, result |-> createEmptyResult ]

\* the caller and its Voter after construction: nothing collected
VoterInit ==
    /\ voteCrops = <<>>
    /\ lastVote = NoVote

\* the candidates of one more crop arrive and the caller votes over all the
\* crops it has
VoteWithCrop ==
    /\ Len(voteCrops) < MaxVoteCrops
    /\ \E crop \in CropCandidates :
          LET candidates == Append(voteCrops, crop)
          IN  /\ voteCrops' = candidates
              /\ lastVote' = [ op |-> "vote", candidates |-> candidates,
                               result |-> vote(candidates) ]
    /\ UNCHANGED exceptVoter

\* the caller votes over the crops it has
VoteCall ==
    /\ lastVote' = [ op |-> "vote", candidates |-> voteCrops,
                     result |-> vote(voteCrops) ]
    /\ UNCHANGED voteCrops
    /\ UNCHANGED exceptVoter

----------------------------------------------------------------------------
(* Validator                                                               *)

\* strictRules.regions, the default allow-list
Regions ==
    { <<2466, 2494, 2453, 2494>>,
      <<2458, 2463, 2509, 2463, 2455, 2509, 2480, 2494, 2478>>,
      <<2454, 2497, 2482, 2472, 2494>>,
      <<2480, 2494, 2460, 2486, 2494, 2489, 2496>>,
      <<2476, 2480, 2495, 2486, 2494, 2482>>,
      <<2488, 2495, 2482, 2503, 2463>>,
      <<2480, 2434, 2474, 2497, 2480>>,
      <<2478, 2479, 2492, 2478, 2472, 2488, 2495, 2434, 2489>> }

\* strictRules.digits, the default set: U+09E6 .. U+09EF
Digits == 2534..2543

\* the characters String.prototype.trim removes
Whitespace ==
    {9, 10, 11, 12, 13, 32, 160, 5760, 8232, 8233, 8239, 8287, 12288, 65279}
        \cup (8192..8202)

isBengaliLetter(code) ==
    \/ code >= 2437 /\ code <= 2489
    \/ code >= 2494 /\ code <= 2508
    \/ code >= 2519 /\ code <= 2524

isBengaliChar(code) == code >= 2432 /\ code <= 2559

\* isBengaliText: the regular expression [ঀ-৿] finds a match
isBengaliText(text) == \E i \in 1..Len(text) : isBengaliChar(text[i])

\* n times the character c
Run(c, n) == [ i \in 1..n |-> c ]

\* first segments of the texts handed over: a region of the allow-list, a
\* region cut short, one letter, Latin letters, nothing, one space
FirstSegments ==
    { <<2466, 2494, 2453, 2494>>, <<2466, 2494, 2453>>,
      Run(Ka, 1), Run(LatinA, 2), <<>>, Run(Space, 1) }

\* further segments: letters and digits in runs around the length limits,
\* the series U+09B8 U+0996 U+09C0, and runs with a foreign character
LaterSegments ==
    { Run(Ka, n) : n \in {1, 2, 4, 5} }
        \cup { Run(DigitOne, n) : n \in {2, 3, 4, 5} }
        \cup { <<2488, 2454, 2496>>, <<Ka, Nukta>>, <<DigitOne, DigitOne, LatinA>> }

\* the segments joined with hyphens
RECURSIVE JoinSegments(_)
JoinSegments(segments) ==
    IF Len(segments) = 0 THEN <<>>
    ELSE IF Len(segments) = 1 THEN segments[1]
    ELSE segments[1] \o <<Hyphen>> \o JoinSegments(Tail(segments))

\* texts without a separator, around the lengths 10 and 20 that
\* validateFallbackFormat tests, with two Bengali characters or more, or one
LongTexts ==
    { Run(Ka, n) : n \in {10, 11, 20, 21} }
        \cup { Run(LatinA, 9) \o Run(Ka, 2), Run(LatinA, 10) \o Run(Ka, 1) }

\* the texts handed to validatePlate: up to MaxSegments segments, and the
\* texts without a separator
PlateTexts ==
    { <<>> } \cup LongTexts \cup
    UNION { { JoinSegments(<<first>> \o later) :
                first \in FirstSegments, later \in [1..n -> LaterSegments] } :
            n \in 0..(MaxSegments - 1) }

\* plate.split('-'), from position i on; current is the part being read
RECURSIVE SplitHyphen(_, _, _)
SplitHyphen(text, i, current) ==
    IF i > Len(text) THEN <<current>>
    ELSE IF text[i] = Hyphen
         THEN <<current>> \o SplitHyphen(text, i + 1, <<>>)
         ELSE SplitHyphen(text, i + 1, Append(current, text[i]))

\* a reason: its kind, the number in its message (a count, a length or a
\* character code, else 0) and the text in its message (else empty)
Reason(kind, n, text) == [ kind |-> kind, n |-> n, text |-> text ]

\* the first character of a segment that fails the test of its loop (0: none)
RECURSIVE FirstNonLetter(_, _)
FirstNonLetter(letters, i) ==
    IF i > Len(letters) THEN 0
    ELSE IF ~isBengaliLetter(letters[i]) THEN letters[i]
         ELSE FirstNonLetter(letters, i + 1)

RECURSIVE FirstNonDigit(_, _)
FirstNonDigit(digits, i) ==
    IF i > Len(digits) THEN 0
    ELSE IF digits[i] \notin Digits THEN digits[i]
         ELSE FirstNonDigit(digits, i + 1)

\* validateStrictFormat (of the metadata, vehicleType is left out: it is a
\* label derived from the series that nothing reads)
validateStrictFormat(plate) ==
    LET parts == SplitHyphen(plate, 1, <<>>)
    IN  IF Len(parts) # 3
        THEN [ valid |-> FALSE,
               reasons |-> << Reason("Expected 3 parts", Len(parts), <<>>) >>,
               metadata |-> <<>> ]
        ELSE LET region == parts[1]
                 letters == parts[2]
                 digits == parts[3]
                 regionReasons ==
                     IF region \notin Regions
                     THEN << Reason("Invalid region", 0, region) >> ELSE <<>>
                 letterReasons ==
                     IF Len(letters) < 2 \/ Len(letters) > 4
                     THEN << Reason("Letters part should be 2-4 characters",
                                    Len(letters), <<>>) >>
                     ELSE IF FirstNonLetter(letters, 1) # 0
                          THEN << Reason("Invalid letter character",
                                         FirstNonLetter(letters, 1), <<>>) >>
                          ELSE <<>>
                 digitReasons ==
                     IF Len(digits) < 3 \/ Len(digits) > 4
                     THEN << Reason("Digits part should be 3-4 characters",
                                    Len(digits), <<>>) >>
                     ELSE IF FirstNonDigit(digits, 1) # 0
                          THEN << Reason("Invalid digit character",
                                         FirstNonDigit(digits, 1), <<>>) >>
                          ELSE <<>>
                 reasons == regionReasons \o letterReasons \o digitReasons
                 valid == Len(reasons) = 0
             IN  [ valid |-> valid,
                   reasons |-> IF valid
                               THEN << Reason("Strict Bangla format validation passed",
                                              0, <<>>) >>
                               ELSE reasons,
                   metadata |-> IF valid
                                THEN << [ region |-> region, series |-> letters,
                                          format |-> "strict" ] >>
                                ELSE <<>> ]

\* validateFallbackFormat
validateFallbackFormat(plate) ==
    IF Len(plate) < 3 \/ Len(plate) > 20
    THEN [ valid |-> FALSE,
           reasons |-> << Reason("Plate length should be 3-20 characters",
                                 Len(plate), <<>>) >>,
           metadata |-> <<>> ]
    ELSE LET bengaliChars == SelectSeq(plate, isBengaliChar)
             hasSeparators == \E i \in 1..Len(plate) : plate[i] \in {Hyphen, Space}
         IN  IF Len(bengaliChars) < 2
             THEN [ valid |-> FALSE,
                    reasons |-> << Reason("Insufficient Bengali characters", 0, <<>>) >>,
                    metadata |-> <<>> ]
             ELSE [ valid |-> TRUE,
                    reasons |->
                        ( IF ~hasSeparators /\ Len(plate) > 10
                          THEN << Reason("Long plates should contain separators",
                                         0, <<>>) >>
                          ELSE <<>> )
                        \o << Reason("Demo fallback validation passed", 0, <<>>),
                              Reason("Found Bengali characters",
                                     Len(bengaliChars), <<>>) >>,
                    metadata |-> << [ format |-> "fallback",
                                      bengaliCharCount |-> Len(bengaliChars),
                                      hasSeparators |-> hasSeparators ] >> ]

\* !plate || plate.trim().length === 0
IsBlankMutEmptyOnly(plate) == plate = <<>>

IsBlank(plate) == \A i \in 1..Len(plate) : plate[i] \in Whitespace

\* is the fallback pass attempted?
FallbackAttemptedMutAlways(enabled) == TRUE

FallbackAttempted(enabled) == enabled

\* Validator.validatePlate(plate) while demoFallbackEnabled is enabled.
\* The reason and warning pushed when the text has no Bengali character are
\* replaced on each of the three paths that follow.
validatePlate(plate, enabled) ==
    LET result == [ valid |-> FALSE, mode |-> "strict", plate |-> plate,
                    reasons |-> <<>>, warnings |-> <<>>, metadata |-> <<>> ]
        strictResult == validateStrictFormat(plate)
        fallbackResult == validateFallbackFormat(plate)
    IN  IF IsBlank(plate)
        THEN [ result EXCEPT !.reasons =
                 << Reason("Empty or null plate text", 0, <<>>) >> ]
        ELSE IF strictResult.valid
        THEN [ result EXCEPT !.valid = TRUE, !.mode = "strict",
                 !.reasons = << Reason("Valid Bangla plate format", 0, <<>>) >>,
                 !.warnings = IF isBengaliText(plate) THEN <<>>
                              ELSE << "Plate contains non-Bengali characters" >>,
                 !.metadata = strictResult.metadata ]
        ELSE IF FallbackAttempted(enabled) /\ fallbackResult.valid
        THEN [ result EXCEPT !.valid = TRUE, !.mode = "fallback",
                 !.reasons = fallbackResult.reasons,
                 !.warnings = << "Strict Bangla format not recognized",
                                 "Using demo fallback validation",
                                 "Production systems require strict format compliance" >>,
                 !.metadata = fallbackResult.metadata ]
        ELSE [ result EXCEPT !.reasons = strictResult.reasons,
                 !.warnings = << "Plate format does not match Bangla standards" >> ]

\* what is observed of a call: the flag it ran under and the result
NoValidation ==
    [ op |-> "none", enabled |-> TRUE,
      result |-> [ valid |-> FALSE, mode |-> "strict", plate |-> <<>>,
                   reasons |-> <<>>, warnings |-> <<>>, metadata |-> <<>> ] ]

\* new Validator(logger), and a caller that holds no text
ValidatorDefault ==
    /\ demoFallbackEnabled = TRUE
    /\ plateText = <<>>
    /\ lastValidation = NoValidation

\* new Validator(logger), and a caller that holds some text
ValidatorInit ==
    /\ demoFallbackEnabled = TRUE
    /\ plateText \in PlateTexts
    /\ lastValidation = NoValidation

\* Validator.validatePlate on the caller's text
ValidatePlateCall ==
    /\ lastValidation' = [ op |-> "validatePlate",
                           enabled |-> demoFallbackEnabled,
                           result |-> validatePlate(plateText, demoFallbackEnabled) ]
    /\ UNCHANGED <<demoFallbackEnabled, plateText>>
    /\ UNCHANGED exceptValidator

\* Validator.setDemoFallback(enabled)
SetDemoFallbackCall ==
    /\ \E enabled \in BOOLEAN : demoFallbackEnabled' = enabled
    /\ UNCHANGED <<plateText, lastValidation>>
    /\ UNCHANGED exceptValidator

----------------------------------------------------------------------------
(* DemoPage                                                                *)

\* texts the recognition data may hold: one of the strict format, one the
\* validator rejects
StrictPlate == JoinSegments(<< <<2466, 2494, 2453, 2494>>, Run(Ka, 2), Run(DigitOne, 3) >>)
LatinPlate == Run(LatinA, 2)

\* the crops of one track in the recognition data, each as its candidates
TrackCandidates ==
    { << <<[text |-> StrictPlate, conf |-> 90]>> >>,
      << <<[text |-> StrictPlate, conf |-> 70]>> >>,
      << <<[text |-> LatinPlate, conf |-> 90]>> >>,
      << <<>> >> }

\* the recognition data loadOCRData may have loaded: nothing (null), or
\* data for the first track, or for the first two
OcrDataSets ==
    { << >> } \cup
    { [ id \in { DecimalString(n) : n \in 1..last } |-> crops ] :
        last \in 1..2, crops \in TrackCandidates }

\* OCRPrecomputed.getCandidatesForTrack
getCandidatesForTrack(trackId) ==
    IF trackId \notin DOMAIN ocrData THEN <<>> ELSE ocrData[trackId]

\* what DetectorPrecomputed.getDetections may return for a frame
PageDetectionLists ==
    { <<>>, <<[type |-> "vehicle", bbox |-> BoxV, conf |-> 95]>>,
      <<[type |-> "plate", bbox |-> BoxX, conf |-> 90]>> }

\* Math.floor(time * 1000) of the times handleTimeUpdate is called with
PageTimes == {0, 2000}

\* the confidence an event needs to exceed: 0.7
EventConfidenceNum == 7
EventConfidenceDen == 10

\* may processFrame create an event, as far as the flag goes?
NotYetCreated(flag) == ~flag

\* the event processFrame builds (id and timestamp, made from the clock, and
\* the constant gate and evidence labels are left out)
NewEvent(timeMs, activeTrack, voteResult) ==
    [ timeMs |-> timeMs,
      trackId |-> activeTrack.id,
      plate |-> voteResult.winner,
      confidence |-> voteResult.confidence,
      status |-> "ENTRY",
      validation |-> [ valid |-> TRUE, mode |-> "fallback",
                       plate |-> voteResult.winner,
                       reasons |-> <<>>, warnings |-> <<>>, metadata |-> <<>> ],
      voting |-> voteResult,
      deduplication |-> [ isDuplicate |-> FALSE ] ]

\* what is observed of a step: the frame, whether it added an event or
\* called setHasCreatedEvent(false), and the events added since the last
\* such call
NoFrame ==
    [ op |-> "none", timeMs |-> 0, created |-> FALSE, reset |-> FALSE,
      sinceReset |-> 0 ]

\* processFrame(timeMs) of the render that saw hasCreatedEvent, on a frame
\* for which the detector returns detections
processFrame(timeMs, detections) ==
    /\ update(detections, timeMs)
    /\ LET trackList == lastUpdate'.returned
           plateDetections == SelectSeq(detections, LAMBDA d : d.type = "plate")
           hasActiveTrack == Len(plateDetections) > 0 /\ Len(trackList) > 0
           candidates == IF hasActiveTrack
                         THEN getCandidatesForTrack(trackList[1].id) ELSE <<>>
           voteResult == vote(candidates)
           created == /\ hasActiveTrack
                      /\ Len(candidates) > 0
                      /\ voteResult.winner # <<>>
                      /\ NotYetCreated(hasCreatedEvent)
                      /\ QuotGT(<< voteResult.confidence[1],
                                   100 * voteResult.confidence[2] >>,
                                << EventConfidenceNum, EventConfidenceDen >>)
           reset == Len(plateDetections) = 0 /\ timeMs < 2000
       IN  /\ events' = IF created
                        THEN Append(events, NewEvent(timeMs, trackList[1], voteResult))
                        ELSE events
           /\ pendingHasCreatedEvent' =
                 IF created THEN Append(pendingHasCreatedEvent, TRUE)
                 ELSE IF reset THEN Append(pendingHasCreatedEvent, FALSE)
                 ELSE pendingHasCreatedEvent
           /\ lastFrame' = [ op |-> "processFrame", timeMs |-> timeMs,
                             created |-> created, reset |-> reset,
                             sinceReset |-> IF reset THEN 0
                                            ELSE IF created THEN lastFrame.sinceReset + 1
                                            ELSE lastFrame.sinceReset ]
    /\ UNCHANGED <<hasCreatedEvent, ocrData>>

\* DemoPage after mounting, nothing loaded
PageDefault ==
    /\ hasCreatedEvent = FALSE
    /\ pendingHasCreatedEvent = <<>>
    /\ events = <<>>
    /\ ocrData = << >>
    /\ lastFrame = NoFrame

\* DemoPage after mounting and loadData
PageInit ==
    /\ hasCreatedEvent = FALSE
    /\ pendingHasCreatedEvent = <<>>
    /\ events = <<>>
    /\ ocrData \in OcrDataSets
    /\ lastFrame = NoFrame

\* handleTimeUpdate: the video reports a time and the frame is processed
HandleTimeUpdate ==
    /\ frameCount < MaxPageFrames
    /\ \E timeMs \in PageTimes, detections \in PageDetectionLists :
          processFrame(timeMs, detections)
    /\ UNCHANGED exceptPage

\* React commits the queued state updates and renders: the handlers of the
\* new render see the value set last
CommitRender ==
    /\ pendingHasCreatedEvent # <<>>
    /\ hasCreatedEvent' = pendingHasCreatedEvent[Len(pendingHasCreatedEvent)]
    /\ pendingHasCreatedEvent' = <<>>
    /\ lastFrame' = [ lastFrame EXCEPT !.op = "render" ]
    /\ UNCHANGED <<events, ocrData>>
    /\ UNCHANGED <<trackerVars, exceptPage>>

----------------------------------------------------------------------------
(* BestFrameSelector                                                       *)

\* The weights of the overall score, in tenths: 0.4, 0.3 and 0.3.
sharpnessWeight == 4
contrastWeight == 3
areaWeight == 3

\* Quality metrics are numbers between 0 and 1; the model counts them in
\* ten-thousandths, so that area / 10000 of an integer area is exact.
QualityUnit == 10000
\* the estimates of calculateQuality for a crop without quality: 0.7
DefaultSharpness == 7000
DefaultContrast == 7000

\* the crops handed to the selector: three with quality metrics, b and c of
\* equal overall score, and two without, one of them with a box larger than
\* the area that normalizes to 1
SelectorCrops ==
    { [ cropId |-> "a", timeMs |-> 0, bbox |-> <<0, 0, 10, 10>>,
        quality |-> << [sharpness |-> 5000, contrast |-> 5000, area |-> 5000] >> ],
      [ cropId |-> "b", timeMs |-> 100, bbox |-> <<0, 0, 10, 10>>,
        quality |-> << [sharpness |-> 8000, contrast |-> 4000, area |-> 4000] >> ],
      [ cropId |-> "c", timeMs |-> 1000, bbox |-> <<0, 0, 10, 10>>,
        quality |-> << [sharpness |-> 5000, contrast |-> 6000, area |-> 6000] >> ],
      [ cropId |-> "d", timeMs |-> 2000, bbox |-> <<0, 0, 50, 40>>,
        quality |-> <<>> ],
      [ cropId |-> "e", timeMs |-> 100, bbox |-> <<0, 0, 200, 100>>,
        quality |-> <<>> ] }

\* calculateQuality(crop); overall is in units of 1 / (10 * QualityUnit)
calculateQualityMutSharpnessOnly(crop) ==
    IF crop.quality # <<>>
    THEN [ sharpness |-> crop.quality[1].sharpness,
           contrast  |-> crop.quality[1].contrast,
           area      |-> crop.quality[1].area,
           overall   |-> crop.quality[1].sharpness * sharpnessWeight ]
    ELSE [ sharpness |-> DefaultSharpness, contrast |-> DefaultContrast,
           area |-> 0, overall |-> DefaultSharpness * sharpnessWeight ]

calculateQuality(crop) ==
    IF crop.quality # <<>>
    THEN [ sharpness |-> crop.quality[1].sharpness,
           contrast  |-> crop.quality[1].contrast,
           area      |-> crop.quality[1].area,
           overall   |-> (crop.quality[1].sharpness * sharpnessWeight)
                           + (crop.quality[1].contrast * contrastWeight)
                           + (crop.quality[1].area * areaWeight) ]
    ELSE LET area == (crop.bbox[3] - crop.bbox[1]) * (crop.bbox[4] - crop.bbox[2])
             normalizedArea == Min(area, QualityUnit)
         IN  [ sharpness |-> DefaultSharpness,
               contrast  |-> DefaultContrast,
               area      |-> normalizedArea,
               overall   |-> (DefaultSharpness * sharpnessWeight)
                               + (DefaultContrast * contrastWeight)
                               + (normalizedArea * areaWeight) ]

\* crops.map((crop, index) => ({crop, index, quality}))
ScoredCrops(crops) ==
    [ i \in 1..Len(crops) |->
        [ crop |-> crops[i], index |-> i, quality |-> calculateQuality(crops[i]) ] ]

\* scoredCrops.sort((a, b) => b.quality.overall - a.quality.overall), a
\* stable sort: x goes before the first element of lower overall score
RECURSIVE InsertScored(_, _)
InsertScored(sorted, x) ==
    IF sorted = <<>> THEN <<x>>
    ELSE IF x.quality.overall > Head(sorted).quality.overall THEN <<x>> \o sorted
         ELSE <<Head(sorted)>> \o InsertScored(Tail(sorted), x)

RECURSIVE SortScored(_)
SortScored(scored) ==
    IF scored = <<>> THEN <<>>
    ELSE InsertScored(SortScored(SubSeq(scored, 1, Len(scored) - 1)),
                      scored[Len(scored)])

\* selectBestFrame(crops): the value returned, as a list (<<>> is null), and
\* the caller's array as the call leaves it
selectBestFrameMutSortInPlace(crops) ==
    LET scoredCrops == SortScored(ScoredCrops(crops))
    IN  IF Len(crops) = 0 THEN [ ret |-> <<>>, crops |-> crops ]
        ELSE [ ret |-> << scoredCrops[Len(scoredCrops)].crop >>,
               crops |-> [ i \in 1..Len(crops) |-> scoredCrops[i].crop ] ]

selectBestFrame(crops) ==
    IF Len(crops) = 0 THEN [ ret |-> <<>>, crops |-> crops ]
    ELSE IF Len(crops) = 1 THEN [ ret |-> <<crops[1]>>, crops |-> crops ]
    ELSE LET scoredCrops == SortScored(ScoredCrops(crops))
             bestCrop == scoredCrops[1]
         IN  [ ret |-> <<bestCrop.crop>>, crops |-> crops ]

\* getTopFrames(crops, n): the list returned and the caller's array as the
\* call leaves it
getTopFrames(crops, n) ==
    IF Len(crops) <= n THEN [ ret |-> crops, crops |-> crops ]
    ELSE LET scoredCrops == SortScored(ScoredCrops(crops))
             topCrops == [ i \in 1..n |-> scoredCrops[i].crop ]
         IN  [ ret |-> topCrops, crops |-> crops ]

\* array.splice(index, 1)
RemoveAt(list, index) ==
    SubSeq(list, 1, index - 1) \o SubSeq(list, index + 1, Len(list))

\* Math.min(...selected.map(s => Math.abs(crop.timeMs - s.timeMs)))
RECURSIVE MinTimeDiff(_, _)
MinTimeDiff(crop, selected) ==
    IF Len(selected) = 1 THEN Abs(crop.timeMs - selected[1].timeMs)
    ELSE Min(Abs(crop.timeMs - Head(selected).timeMs),
             MinTimeDiff(crop, Tail(selected)))

\* calculateTemporalDiversity(crop, selected), in thousandths
calculateTemporalDiversity(crop, selected) ==
    IF Len(selected) = 0 THEN 1000 ELSE MinTimeDiff(crop, selected)

\* the forEach of the loop of selectDiverseFrames from index on: bestIndex
RECURSIVE BestDiverseIndex(_, _, _, _, _)
BestDiverseIndex(remaining, selected, index, bestDiversity, bestIndex) ==
    IF index > Len(remaining) THEN bestIndex
    ELSE LET diversity == calculateTemporalDiversity(remaining[index], selected)
         IN  IF diversity > bestDiversity
             THEN BestDiverseIndex(remaining, selected, index + 1, diversity, index)
             ELSE BestDiverseIndex(remaining, selected, index + 1,
                                   bestDiversity, bestIndex)

\* the while loop of selectDiverseFrames
RECURSIVE DiverseLoop(_, _, _)
DiverseLoop(selected, remaining, n) ==
    IF Len(selected) < n /\ Len(remaining) > 0
    THEN LET bestIndex == BestDiverseIndex(remaining, selected, 1, -1000, 1)
         IN  DiverseLoop(Append(selected, remaining[bestIndex]),
                         RemoveAt(remaining, bestIndex), n)
    ELSE selected

\* selectDiverseFrames(crops, n): the list returned and the caller's array
\* as the call leaves it
selectDiverseFrames(crops, n) ==
    IF Len(crops) <= n THEN [ ret |-> crops, crops |-> crops ]
    ELSE LET scoredCrops == SortScored(ScoredCrops(crops))
             selected == << scoredCrops[1].crop >>
             remaining == RemoveAt(crops, scoredCrops[1].index)
         IN  [ ret |-> DiverseLoop(selected, remaining, n), crops |-> crops ]

\* what is observed of a call: the operation, the array handed over, n, and
\* the value returned
NoSelect == [ op |-> "none", crops |-> <<>>, n |-> 0, ret |-> <<>> ]

\* new BestFrameSelector(logger), and a caller that holds no crop
SelectorInit ==
    /\ selectCrops = <<>>
    /\ lastSelect = NoSelect

\* one more crop has been captured and the caller selects the best of all
SelectWithCrop ==
    /\ Len(selectCrops) < MaxSelectCrops
    /\ \E crop \in SelectorCrops :
          LET crops == Append(selectCrops, crop)
              r == selectBestFrame(crops)
          IN  /\ selectCrops' = r.crops
              /\ lastSelect' = [ op |-> "selectBestFrame", crops |-> crops,
                                 n |-> 0, ret |-> r.ret ]
    /\ UNCHANGED exceptSelector

\* the caller selects the best of the crops it holds
SelectBestFrameCall ==
    /\ LET r == selectBestFrame(selectCrops)
       IN  /\ selectCrops' = r.crops
           /\ lastSelect' = [ op |-> "selectBestFrame", crops |-> selectCrops,
                              n |-> 0, ret |-> r.ret ]
    /\ UNCHANGED exceptSelector

\* the caller takes the top n frames of the crops it holds
GetTopFramesCall ==
    /\ \E n \in 0..MaxSelectCrops :
          LET r == getTopFrames(selectCrops, n)
          IN  /\ selectCrops' = r.crops
              /\ lastSelect' = [ op |-> "getTopFrames",
                                 crops |-> selectCrops, n |-> n, ret |-> r.ret ]
    /\ UNCHANGED exceptSelector

\* the caller selects n diverse frames of the crops it holds
SelectDiverseFramesCall ==
    /\ \E n \in 0..MaxSelectCrops :
          LET r == selectDiverseFrames(selectCrops, n)
          IN  /\ selectCrops' = r.crops
              /\ lastSelect' = [ op |-> "selectDiverseFrames",
                                 crops |-> selectCrops, n |-> n, ret |-> r.ret ]
    /\ UNCHANGED exceptSelector

----------------------------------------------------------------------------
(* The selector, the voter and the validator, each run twice on one input  *)

\* the inputs: crop lists, candidate lists per crop, and texts that are
\* valid in the strict format, in no format, empty, blank, and valid in the
\* fallback format only
ReplayCropLists == UNION { [1..n -> SelectorCrops] : n \in 0..MaxReplayLen }

ReplayCandidateLists == UNION { [1..n -> CropCandidates] : n \in 0..MaxReplayLen }

ReplayTexts ==
    { StrictPlate, LatinPlate, <<>>, Run(Space, 1),
      JoinSegments(<< Run(Ka, 2), Run(DigitOne, 2) >>) }

\* what is observed of a replay: the operation, the input handed to the
\* first call, the input as the second call leaves it, and both results
NoReplay ==
    [ op |-> "none", input |-> <<>>, inputAfter |-> <<>>,
      first |-> <<>>, second |-> <<>> ]

ReplayInit == lastReplay = NoReplay

\* One input is replayed per run: none of the three operations writes a
\* field that a later call reads, so a second replay starts where the first
\* did.

\* selectBestFrame(crops) and again selectBestFrame(crops), on the array as
\* the first call left it
ReplaySelectBestFrame ==
    /\ lastReplay = NoReplay
    /\ \E crops \in ReplayCropLists :
          LET r1 == selectBestFrame(crops)
              r2 == selectBestFrame(r1.crops)
          IN  lastReplay' = [ op |-> "selectBestFrame", input |-> crops,
                              inputAfter |-> r2.crops,
                              first |-> r1.ret, second |-> r2.ret ]
    /\ UNCHANGED exceptReplay

\* vote(candidates) twice; vote reads its argument only
ReplayVote ==
    /\ lastReplay = NoReplay
    /\ \E candidates \in ReplayCandidateLists :
          lastReplay' = [ op |-> "vote", input |-> candidates,
                          inputAfter |-> candidates,
                          first |-> vote(candidates),
                          second |-> vote(candidates) ]
    /\ UNCHANGED exceptReplay

\* validatePlate(plate) twice with no setDemoFallback in between;
\* validatePlate writes no field of the Validator
ReplayValidatePlate ==
    /\ lastReplay = NoReplay
    /\ \E plate \in ReplayTexts :
          lastReplay' = [ op |-> "validatePlate", input |-> plate,
                          inputAfter |-> plate,
                          first |-> validatePlate(plate, demoFallbackEnabled),
                          second |-> validatePlate(plate, demoFallbackEnabled) ]
    /\ UNCHANGED exceptReplay

----------------------------------------------------------------------------
(* Specifications                                                          *)

\* the tracker driven with arbitrary detection lists
Init ==
    /\ TrackerInit
    /\ SessionManagerDefault
    /\ DeduplicatorDefault
    /\ VoterInit
    /\ ValidatorDefault
    /\ PageDefault
    /\ SelectorInit
    /\ ReplayInit

Next == Update

Spec == Init /\ [][Next]_vars

\* the tracker driven for more cycles with at most one detection per cycle
LongNext == LongUpdate

LongSpec == Init /\ [][LongNext]_vars

\* the tracker driven until finished tracks are evicted
EvictNext == EvictUpdate

EvictSpec == Init /\ [][EvictNext]_vars

\* the tracker fed for some cycles and then driven without detections; the
\* sample time keeps advancing as long as a track is active or lost
LiveNext == LiveFeedUpdate \/ AgeUpdate \/ StallUpdate

\* WF_vars(AgeUpdate): update is total, so ENABLED <<AgeUpdate>>_vars is
\* AgeEnabled
AgeFairness == []<>(~AgeEnabled) \/ []<><<AgeUpdate>>_vars

LiveSpec == Init /\ [][LiveNext]_vars /\ AgeFairness

\* the session manager
SessionInit ==
    /\ TrackerInit
    /\ SessionManagerInit
    /\ DeduplicatorDefault
    /\ VoterInit
    /\ ValidatorDefault
    /\ PageDefault
    /\ SelectorInit
    /\ ReplayInit

SessionNext ==
    \/ SessionUpdateCall
    \/ HandleTrackLostCall
    \/ FinalizeSessionCall
    \/ ClearOldSessionsCall
    \/ SessionResetCall

SessionSpec == SessionInit /\ [][SessionNext]_vars

\* the deduplicator
DedupInit ==
    /\ TrackerInit
    /\ SessionManagerDefault
    /\ DeduplicatorInit
    /\ VoterInit
    /\ ValidatorDefault
    /\ PageDefault
    /\ SelectorInit
    /\ ReplayInit

DedupNext ==
    \/ CheckDuplicateCall
    \/ ClearHistoryCall

DedupSpec == DedupInit /\ [][DedupNext]_vars

\* the deduplicator with a history of more than one event
HistoryInit ==
    /\ TrackerInit
    /\ SessionManagerDefault
    /\ DeduplicatorLongInit
    /\ VoterInit
    /\ ValidatorDefault
    /\ PageDefault
    /\ SelectorInit
    /\ ReplayInit

HistoryNext ==
    \/ HistoryCheckCall
    \/ ClearHistoryCall

HistorySpec == HistoryInit /\ [][HistoryNext]_vars

\* the deduplicator handed a series of sightings of one plate
SeriesNext == SeriesCheckCall

SeriesSpec == HistoryInit /\ [][SeriesNext]_vars

\* the frame selector
SelectorNext ==
    \/ SelectWithCrop
    \/ SelectBestFrameCall
    \/ GetTopFramesCall
    \/ SelectDiverseFramesCall

SelectorSpec == Init /\ [][SelectorNext]_vars

\* the three operations run twice, under either fallback setting
ReplayNext ==
    \/ ReplaySelectBestFrame
    \/ ReplayVote
    \/ ReplayValidatePlate
    \/ SetDemoFallbackCall

ReplaySpec == Init /\ [][ReplayNext]_vars

\* the voter
VoteNext ==
    \/ VoteWithCrop
    \/ VoteCall

VoteSpec == Init /\ [][VoteNext]_vars

\* the validator
ValidatorSpecInit ==
    /\ TrackerInit
    /\ SessionManagerDefault
    /\ DeduplicatorDefault
    /\ VoterInit
    /\ ValidatorInit
    /\ PageDefault
    /\ SelectorInit
    /\ ReplayInit

ValidatorNext ==
    \/ ValidatePlateCall
    \/ SetDemoFallbackCall

ValidatorSpec == ValidatorSpecInit /\ [][ValidatorNext]_vars

\* DemoPage with its tracker and voter
PageSpecInit ==
    /\ TrackerInit
    /\ SessionManagerDefault
    /\ DeduplicatorDefault
    /\ VoterInit
    /\ ValidatorDefault
    /\ PageInit
    /\ SelectorInit
    /\ ReplayInit

PageNext ==
    \/ HandleTimeUpdate
    \/ CommitRender

PageSpec == PageSpecInit /\ [][PageNext]_vars

----------------------------------------------------------------------------
(* Properties of TrackerSimple                                             *)

IoU(detection, track) == calculateIOU(detection.bbox, track.bbox)

QuotEQ(a, b) == a[1] * b[2] = b[1] * a[2]

\* the tracks of ts that a detection may be matched to
Acceptable(ts, detection) ==
    { i \in 1..Len(ts) : /\ ts[i].status # "finished"
                         /\ QuotGT(IoU(detection, ts[i]), IouThreshold) }

\* track i of ts beats track j for the detection: higher IoU, or the same
\* IoU and created earlier
Beats(ts, detection, i, j) ==
    \/ QuotGT(IoU(detection, ts[i]), IoU(detection, ts[j]))
    \/ QuotEQ(IoU(detection, ts[i]), IoU(detection, ts[j])) /\ i < j

StepDetection(s) == lastUpdate.detections[s.k]

Ids(ts) == { ts[i].id : i \in 1..Len(ts) }

\* C1: every plate detection of a cycle is matched to the non-finished track
\* whose box, as it stands when the detection is processed, has the highest
\* IoU above iouThreshold (the earliest-created one among equals) and is
\* stamped with its id; with no such track it gets a new track and its id.
C1_GreedyBestMatch ==
    /\ \A k \in 1..Len(lastUpdate.detections) :
          lastUpdate.detections[k].type = "plate" =>
              Cardinality({ n \in 1..Len(lastUpdate.steps) :
                              lastUpdate.steps[n].k = k }) = 1
    /\ \A n \in 1..Len(lastUpdate.steps) :
          LET s   == lastUpdate.steps[n]
              d   == StepDetection(s)
              acc == Acceptable(s.before, d)
              stamp == lastUpdate.stamps[s.k]
          IN  IF acc = {}
              THEN /\ s.match = NoTrackId
                   /\ stamp # NoTrackId
                   /\ stamp \notin Ids(s.before)
                   /\ \E j \in 1..Len(lastUpdate.beforeLost) :
                         /\ j > Len(s.before)
                         /\ lastUpdate.beforeLost[j].id = stamp
                         /\ lastUpdate.beforeLost[j].detections = <<d>>
                         /\ lastUpdate.beforeLost[j].bbox = d.bbox
              ELSE \E i \in acc :
                     /\ \A j \in acc \ {i} : Beats(s.before, d, i, j)
                     /\ s.match = s.before[i].id
                     /\ stamp = s.before[i].id

\* a detection had two acceptable tracks of equal IoU and went to the earlier
C1_Witness ==
    \E n \in 1..Len(lastUpdate.steps) :
        LET s == lastUpdate.steps[n]
            d == StepDetection(s)
        IN  \E i, j \in Acceptable(s.before, d) :
              /\ i < j
              /\ QuotEQ(IoU(d, s.before[i]), IoU(d, s.before[j]))
              /\ lastUpdate.stamps[s.k] = s.before[i].id

\* C2 as stated: a detection whose IoU with an existing track T is above the
\* threshold, and that no other detection of the cycle beats on T, is stamped
\* with T's identity.
C2_Original ==
    lastUpdate.steps # <<>> =>
        LET start == lastUpdate.steps[1].before
        IN  \A n \in 1..Len(lastUpdate.steps), i \in 1..Len(start) :
              LET d == StepDetection(lastUpdate.steps[n])
              IN  ( /\ QuotGT(IoU(d, start[i]), IouThreshold)
                    /\ \A m \in 1..Len(lastUpdate.steps) \ {n} :
                          ~QuotGT(IoU(StepDetection(lastUpdate.steps[m]), start[i]),
                                  IoU(d, start[i])) )
                  => lastUpdate.stamps[lastUpdate.steps[n].k] = start[i].id

\* C2 (amended): a detection is stamped with the identity of a non-finished
\* track T whenever its IoU with T's box, as it stands when the detection is
\* processed, is above the threshold and no other non-finished track has a
\* higher IoU with it, or the same IoU and an earlier creation.
C2_BestTrackGetsDetection ==
    \A n \in 1..Len(lastUpdate.steps) :
        LET s == lastUpdate.steps[n]
            d == StepDetection(s)
        IN  \A i \in 1..Len(s.before) :
              ( /\ s.before[i].status # "finished"
                /\ QuotGT(IoU(d, s.before[i]), IouThreshold)
                /\ \A j \in 1..Len(s.before) \ {i} :
                      \/ s.before[j].status = "finished"
                      \/ QuotGT(IoU(d, s.before[i]), IoU(d, s.before[j]))
                      \/ /\ QuotEQ(IoU(d, s.before[i]), IoU(d, s.before[j]))
                         /\ i < j )
              => lastUpdate.stamps[s.k] = s.before[i].id

\* a detection had two acceptable tracks and went to the later-created one,
\* whose IoU was higher
C2_Witness ==
    \E n \in 1..Len(lastUpdate.steps) :
        LET s == lastUpdate.steps[n]
            d == StepDetection(s)
        IN  \E i, j \in Acceptable(s.before, d) :
              /\ i < j
              /\ QuotGT(IoU(d, s.before[j]), IoU(d, s.before[i]))
              /\ lastUpdate.stamps[s.k] = s.before[j].id

\* C3: a finished track stays as it is (status, box, lastSeen, history)
\* until it is evicted, no detection is matched to it, and a track becomes
\* finished only from the status lost.
C3_FinishedIsFinal ==
    [][ /\ \A i \in 1..Len(tracks) :
              tracks[i].status = "finished" =>
                /\ \A j \in 1..Len(tracks') :
                      tracks'[j].id = tracks[i].id => tracks'[j] = tracks[i]
                /\ \A n \in 1..Len(lastUpdate'.steps) :
                      lastUpdate'.steps[n].match # tracks[i].id
        /\ \A j \in 1..Len(lastUpdate'.beforeLost) :
              LET t == lastUpdate'.beforeLost[j]
                  wasFinished == \E i \in 1..Len(tracks) :
                                    tracks[i].id = t.id /\ tracks[i].status = "finished"
                  isFinished == \/ t.id \in lastUpdate'.tracksToFinish
                                \/ \E m \in 1..Len(tracks') :
                                      tracks'[m].id = t.id /\ tracks'[m].status = "finished"
              IN  (isFinished /\ ~wasFinished) => t.status = "lost"
      ]_vars

\* a cycle processed a detection that overlaps a finished track beyond the
\* threshold, and that track is still held
C3_Witness ==
    \E n \in 1..Len(lastUpdate.steps) :
        LET s == lastUpdate.steps[n]
        IN  \E i \in 1..Len(s.before) :
              /\ s.before[i].status = "finished"
              /\ QuotGT(IoU(StepDetection(s), s.before[i]), IouThreshold)
              /\ \E m \in 1..Len(tracks) : tracks[m] = s.before[i]

\* tracks that the cycle left unmatched, as handleLostTracks found them
LeftLost == { j \in 1..Len(lastUpdate.beforeLost) :
                lastUpdate.beforeLost[j].status = "lost" }

Elapsed(j) == lastUpdate.timeMs - lastUpdate.beforeLost[j].lastSeen

\* C4 as stated: an unmatched track is finished at the end of the cycle iff
\* the elapsed time is at least maxLostFrames nominal frame periods.
C4_Original ==
    \A j \in LeftLost :
        lastUpdate.beforeLost[j].id \in lastUpdate.tracksToFinish
            <=> Elapsed(j) >= maxLostFrames * FramePeriodMs

\* C4 (amended): an unmatched track is finished at the end of the cycle iff
\* the elapsed time, in frame periods rounded to the nearest integer, exceeds
\* maxLostFrames, i.e. iff it is at least maxLostFrames + 1/2 frame periods.
C4_FinishedAfterRoundedFrames ==
    \A j \in LeftLost :
        lastUpdate.beforeLost[j].id \in lastUpdate.tracksToFinish
            <=> 2 * Elapsed(j) >= (2 * maxLostFrames + 1) * FramePeriodMs

\* an unmatched track stayed lost although maxLostFrames frame periods had
\* elapsed
C4_Witness ==
    \E j \in LeftLost :
        /\ Elapsed(j) >= maxLostFrames * FramePeriodMs
        /\ lastUpdate.beforeLost[j].id \notin lastUpdate.tracksToFinish
        /\ \E m \in 1..Len(tracks) :
              /\ tracks[m].id = lastUpdate.beforeLost[j].id
              /\ tracks[m].status = "lost"

\* the number a track identity stands for: parseInt of its digits
RECURSIVE IdNumber(_)
IdNumber(id) ==
    IF Len(id) = 0 THEN 0
    ELSE 10 * IdNumber(SubSeq(id, 1, Len(id) - 1)) + id[Len(id)]

\* the tracks that the last cycle's handleLostTracks deleted
EvictedTracks ==
    { j \in 1..Len(lastUpdate.beforeLost) :
        lastUpdate.beforeLost[j].id \notin Ids(tracks) }

\* C16: after an update at most FinishedRetention (10) tracks are finished;
\* every track deleted was finished and its lastSeen is at most that of
\* every finished track kept; no active or lost track is deleted.
C16_FinishedRetentionCap ==
    /\ Cardinality({ i \in 1..Len(tracks) : tracks[i].status = "finished" })
          <= FinishedRetention
    /\ \A j \in EvictedTracks :
          LET t == lastUpdate.beforeLost[j]
          IN  /\ t.status = "finished" \/ t.id \in lastUpdate.tracksToFinish
              /\ \A i \in 1..Len(tracks) :
                    tracks[i].status = "finished" => t.lastSeen <= tracks[i].lastSeen

\* a track was deleted while a finished track of the same lastSeen was kept
C16_Witness ==
    \E j \in EvictedTracks :
        \E i \in 1..Len(tracks) :
            /\ tracks[i].status = "finished"
            /\ tracks[i].lastSeen = lastUpdate.beforeLost[j].lastSeen

\* C17: the identities of the tracks held are distinct and increase in
\* creation order, every track created in a cycle gets an identity that is
\* at least the nextTrackId the cycle started with, and every identity
\* issued before stays below nextTrackId, so none is issued twice.
C17_FreshIncreasingIds ==
    [][ /\ \A i, j \in 1..Len(tracks') :
              i < j => IdNumber(tracks'[i].id) < IdNumber(tracks'[j].id)
        /\ nextTrackId' >= nextTrackId
        /\ \A j \in 1..Len(lastUpdate'.beforeLost) :
              LET id == lastUpdate'.beforeLost[j].id
              IN  /\ IdNumber(id) < nextTrackId'
                  /\ id = DecimalString(IdNumber(id))
                  /\ id \notin Ids(tracks) => IdNumber(id) >= nextTrackId
        /\ \A i \in 1..Len(tracks) : IdNumber(tracks[i].id) < nextTrackId
      ]_vars

\* a track has been deleted and later cycles have issued identities of two
\* digits
C17_Witness ==
    /\ Len(tracks) < nextTrackId - 1
    /\ \E i \in 1..Len(tracks) : Len(tracks[i].id) = 2 /\ tracks[i].status = "active"

\* the history a track identity had before the cycle
OldHistory(id) ==
    IF \E i \in 1..Len(tracks) : tracks[i].id = id
    THEN (CHOOSE t \in { tracks[i] : i \in 1..Len(tracks) } : t.id = id).detections
    ELSE <<>>

\* the detections of cycle u stamped with id, from position k on
RECURSIVE StampedWith(_, _, _)
StampedWith(u, id, k) ==
    IF k > Len(u.detections) THEN <<>>
    ELSE IF u.stamps[k] = id
         THEN <<u.detections[k]>> \o StampedWith(u, id, k + 1)
         ELSE StampedWith(u, id, k + 1)

\* the entries of ts whose history holds the detection
HoldersOf(ts, detection) ==
    { i \in 1..Len(ts) :
        \E h \in 1..Len(ts[i].detections) : ts[i].detections[h] = detection }

\* C18 as stated: in every state each track's box is the box of the last
\* detection of its history, and each plate detection of the last cycle is
\* in the history of exactly one track, the one it was stamped with.
C18_Original ==
    /\ \A i \in 1..Len(tracks) :
          /\ Len(tracks[i].detections) >= 1
          /\ tracks[i].bbox = tracks[i].detections[Len(tracks[i].detections)].bbox
    /\ \A k \in 1..Len(lastUpdate.detections) :
          lastUpdate.detections[k].type = "plate" =>
              HoldersOf(tracks, lastUpdate.detections[k])
                = { i \in 1..Len(tracks) : tracks[i].id = lastUpdate.stamps[k] }

\* C18: after every cycle each track's box is the box of the last detection
\* of its history, every plate detection of the cycle is stamped with the
\* identity of exactly one track, and the cycle appends to each track's
\* history exactly the detections stamped with its identity, in order (a
\* detection processed again in a later cycle can also be in the history of
\* a track of an earlier cycle).
C18_BoxAndHistoryPerCycle ==
    [][ LET u == lastUpdate'
        IN  /\ \A i \in 1..Len(tracks') :
                  /\ Len(tracks'[i].detections) >= 1
                  /\ tracks'[i].bbox
                       = tracks'[i].detections[Len(tracks'[i].detections)].bbox
            /\ \A k \in 1..Len(u.detections) :
                  u.detections[k].type = "plate" =>
                      Cardinality({ j \in 1..Len(u.beforeLost) :
                                      u.beforeLost[j].id = u.stamps[k] }) = 1
            /\ \A j \in 1..Len(u.beforeLost) :
                  u.beforeLost[j].detections
                    = OldHistory(u.beforeLost[j].id)
                        \o StampedWith(u, u.beforeLost[j].id, 1)
      ]_vars

\* the last cycle matched a detection to a track whose box was another one
C18_Witness ==
    \E n \in 1..Len(lastUpdate.steps) :
        LET s == lastUpdate.steps[n]
        IN  /\ s.match # NoTrackId
            /\ \E i \in 1..Len(s.before) :
                  /\ s.before[i].id = s.match
                  /\ s.before[i].bbox # StepDetection(s).bbox
            /\ \E i \in 1..Len(tracks) :
                  /\ tracks[i].id = s.match
                  /\ Len(tracks[i].detections) >= 2
                  /\ tracks[i].bbox = StepDetection(s).bbox

\* does the list hold no detection of type plate?
NoPlateIn(detections) ==
    \A k \in 1..Len(detections) : detections[k].type # "plate"

\* C19: a cycle whose list is empty or holds no plate creates no track,
\* changes no track's box, lastSeen or history, leaves no track active and
\* returns the empty list.
C19_NoPlateCycle ==
    [][ NoPlateIn(lastUpdate'.detections) =>
          /\ nextTrackId' = nextTrackId
          /\ \A j \in 1..Len(tracks') :
                /\ tracks'[j].status # "active"
                /\ \E i \in 1..Len(tracks) :
                      /\ tracks[i].id = tracks'[j].id
                      /\ tracks[i].bbox = tracks'[j].bbox
                      /\ tracks[i].lastSeen = tracks'[j].lastSeen
                      /\ tracks[i].detections = tracks'[j].detections
          /\ lastUpdate'.returned = <<>>
      ]_vars

\* a cycle with a vehicle detection only has turned a track lost
C19_Witness ==
    /\ lastUpdate.detections # <<>>
    /\ NoPlateIn(lastUpdate.detections)
    /\ lastUpdate.returned = <<>>
    /\ \E i \in 1..Len(tracks) :
          tracks[i].status = "lost" /\ tracks[i].lastSeen < lastUpdate.timeMs

\* how many detections of cycle u are stamped with id
StampCount(u, id) ==
    Cardinality({ k \in 1..Len(u.detections) : u.stamps[k] = id })

\* C34 as stated: no two plate detections of a cycle are stamped with the
\* same track identity.
C34_Original ==
    \A k, l \in 1..Len(lastUpdate.detections) :
        ( /\ k # l
          /\ lastUpdate.detections[k].type = "plate"
          /\ lastUpdate.detections[l].type = "plate" )
        => lastUpdate.stamps[k] # lastUpdate.stamps[l]

\* C34: a track that a detection of the cycle has matched (it is active
\* when a later detection is processed) stays a candidate with its new
\* box, so a later detection whose IoU with it is above the threshold is
\* matched and not given a new track; a track's history grows in a cycle
\* by the number of detections stamped with its identity, which is one
\* for a track created in the cycle and can be more for a matched one.
C34_MatchedTrackStaysCandidate ==
    [][ LET u == lastUpdate'
        IN  /\ \A n \in 1..Len(u.steps) :
                  LET s == u.steps[n]
                  IN  ( \E i \in 1..Len(s.before) :
                          /\ s.before[i].status = "active"
                          /\ QuotGT(IoU(u.detections[s.k], s.before[i]),
                                    IouThreshold) )
                      => s.match # NoTrackId
            /\ \A j \in 1..Len(u.beforeLost) :
                  LET id == u.beforeLost[j].id
                  IN  /\ Len(u.beforeLost[j].detections)
                           = Len(OldHistory(id)) + StampCount(u, id)
                      /\ id \notin Ids(tracks) => StampCount(u, id) = 1
      ]_vars

\* two detections of different boxes were stamped with one identity in
\* the last cycle, and both are in that track's history
C34_Witness ==
    \E k, l \in 1..Len(lastUpdate.detections) :
        /\ k < l
        /\ lastUpdate.stamps[k] = lastUpdate.stamps[l]
        /\ lastUpdate.stamps[k] # NoTrackId
        /\ lastUpdate.detections[k].bbox # lastUpdate.detections[l].bbox
        /\ \E i \in 1..Len(tracks) :
              /\ tracks[i].id = lastUpdate.stamps[k]
              /\ Len(tracks[i].detections) >= 3
              /\ tracks[i].bbox = lastUpdate.detections[l].bbox

\* the identities stamped on the detections of the last cycle: the tracks
\* matched and the tracks created
StampedIds ==
    { lastUpdate.stamps[k] : k \in 1..Len(lastUpdate.stamps) } \ {NoTrackId}

\* C35: when update(detections, t) has returned, the list returned holds
\* exactly the tracks of status active, in the order of the Map; every
\* active track has lastSeen = t and was matched or created in the cycle;
\* every track held that was neither matched nor created in the cycle is
\* lost or finished.
C35_ReturnsTheActiveTracks ==
    frameCount >= 1 =>
        /\ lastUpdate.returned
             = SelectSeq(tracks, LAMBDA track : track.status = "active")
        /\ \A i \in 1..Len(tracks) :
              /\ tracks[i].status = "active" =>
                    /\ tracks[i].lastSeen = lastUpdate.timeMs
                    /\ tracks[i].id \in StampedIds
              /\ tracks[i].id \notin StampedIds =>
                    tracks[i].status \in {"lost", "finished"}
              /\ tracks[i].id \in StampedIds => tracks[i].status = "active"

\* the last cycle returned one track, matched for the second time, while
\* another track is held as lost
C35_Witness ==
    /\ Len(lastUpdate.returned) = 1
    /\ Len(lastUpdate.returned[1].detections) >= 2
    /\ \E i \in 1..Len(tracks) :
          tracks[i].status = "lost" /\ tracks[i].lastSeen < lastUpdate.timeMs

\* a track is held that is active or lost
SomeUnfinished == \E i \in 1..Len(tracks) : tracks[i].status # "finished"

\* every track held is finished
AllFinished == \A i \in 1..Len(tracks) : tracks[i].status = "finished"

\* the tracks that were finished when the last cycle began its clean-up
FinishedBeforeCleanup ==
    { j \in 1..Len(lastUpdate.beforeLost) :
        \/ lastUpdate.beforeLost[j].status = "finished"
        \/ lastUpdate.beforeLost[j].id \in lastUpdate.tracksToFinish }

\* the surplus over FinishedRetention is gone when the cycle returns, and
\* what is gone was seen no later than any finished track that is kept
SurplusEvicted ==
    Cardinality(FinishedBeforeCleanup) > FinishedRetention =>
        /\ Cardinality(EvictedTracks) =
              Cardinality(FinishedBeforeCleanup) - FinishedRetention
        /\ EvictedTracks \subseteq FinishedBeforeCleanup
        /\ \A j \in EvictedTracks : \A i \in 1..Len(tracks) :
              tracks[i].status = "finished" =>
                  lastUpdate.beforeLost[j].lastSeen <= tracks[i].lastSeen

\* a cycle at the sample time of the cycle before leaves every unmatched
\* track that was active or lost in the status lost
StallKeepsLost ==
    (frameCount' = frameCount + 1 /\ lastUpdate'.timeMs = lastUpdate.timeMs) =>
        \A i \in 1..Len(tracks) :
            ( /\ tracks[i].status # "finished"
              /\ \A k \in 1..Len(lastUpdate'.stamps) :
                    lastUpdate'.stamps[k] # tracks[i].id )
            => \E j \in 1..Len(tracks') :
                  /\ tracks'[j].id = tracks[i].id
                  /\ tracks'[j].status = "lost"
                  /\ tracks'[j].lastSeen = tracks[i].lastSeen

\* C31: when the sample time keeps advancing and the detections have
\* stopped, every track that is active or lost is eventually finished; as
\* soon as more than FinishedRetention (10) tracks are finished the surplus,
\* the least recently seen, is evicted; and a cycle whose sample time did
\* not advance leaves an unmatched track lost.
C31_AgeingFinishesAndEvicts ==
    /\ SomeUnfinished ~> AllFinished
    /\ []SurplusEvicted
    /\ [][StallKeepsLost]_vars

\* a cycle without detections finished a track 500 ms after it was last
\* seen, three or more cycles after its last match, and evicted a track
C31_Witness ==
    /\ lastUpdate.detections = <<>>
    /\ EvictedTracks # {}
    /\ \E j \in 1..Len(lastUpdate.beforeLost) :
          /\ lastUpdate.beforeLost[j].id \in lastUpdate.tracksToFinish
          /\ lastUpdate.timeMs - lastUpdate.beforeLost[j].lastSeen = 500

----------------------------------------------------------------------------
(* Properties of SessionManager                                            *)

\* the last call found a session of its trackId with this status
Found(status) ==
    /\ lastSession.before # <<>>
    /\ lastSession.before[1].status = status

\* C5 as stated: a finalized session is immutable: an update for its track
\* identity, with or without a crop, leaves its evidence list, startMs and
\* endMs as they were.
C5_FinalizedImmutable ==
    (lastSession.op = "update" /\ Found("finalized")) =>
        /\ lastSession.trackId \in DOMAIN sessions
        /\ sessions[lastSession.trackId].crops = lastSession.before[1].crops
        /\ sessions[lastSession.trackId].startMs = lastSession.before[1].startMs
        /\ sessions[lastSession.trackId].endMs = lastSession.before[1].endMs

\* C6: every finalized session holds at least minSessionFrames crops;
\* finalizeSession on a shorter active session deletes it and returns null,
\* and a session it returns is never shorter.
C6_FinalizedHasMinimum ==
    /\ \A k \in DOMAIN sessions :
          sessions[k].status = "finalized" =>
              Len(sessions[k].crops) >= sessionConfig.minSessionFrames
    /\ ( /\ lastSession.op = "finalizeSession"
         /\ Found("active")
         /\ Len(lastSession.before[1].crops) < sessionConfig.minSessionFrames )
       => /\ lastSession.trackId \notin DOMAIN sessions
          /\ lastSession.ret = <<>>
    /\ lastSession.ret # <<>> =>
          /\ lastSession.ret[1].status = "finalized"
          /\ Len(lastSession.ret[1].crops) >= sessionConfig.minSessionFrames

\* finalizeSession was called on an active session with at least one crop
\* but fewer than minSessionFrames
C6_Witness ==
    /\ lastSession.op = "finalizeSession"
    /\ Found("active")
    /\ Len(lastSession.before[1].crops) > 0
    /\ Len(lastSession.before[1].crops) < sessionConfig.minSessionFrames

\* C7 as stated: with minSessionFrames <= maxSessionFrames, after an update
\* call no active session holds maxSessionFrames or more crops.
C7_NoActiveSessionAtCap ==
    ( /\ lastSession.op = "update"
      /\ sessionConfig.minSessionFrames <= sessionConfig.maxSessionFrames )
    => \A k \in DOMAIN sessions :
          sessions[k].status = "active" =>
              Len(sessions[k].crops) < sessionConfig.maxSessionFrames

\* C8 as stated: handleTrackLost on an active session finalizes or discards
\* it iff the sample time elapsed since lastSeen is at least
\* disappearThreshold, and otherwise leaves it as it was.
C8_LostBeyondThreshold ==
    (lastSession.op = "handleTrackLost" /\ Found("active")) =>
        LET elapsed == lastSession.sampleTime - lastSession.lastSeen
            closed  == \/ lastSession.trackId \notin DOMAIN sessions
                       \/ sessions[lastSession.trackId].status = "finalized"
        IN  /\ closed <=> elapsed >= sessionConfig.disappearThreshold
            /\ elapsed < sessionConfig.disappearThreshold =>
                  SessionOf(sessions, lastSession.trackId) = lastSession.before

\* C20: a session that is finalized stays finalized for as long as it is
\* held; finalizeSession returns a session only for one it found active and
\* leaves it finalized, so it returns a given session at most once; called
\* for a finalized or unknown track identity it returns null and changes
\* nothing.
C20_FinalizedNeverReopened ==
    [][ /\ \A k \in DOMAIN sessions \cap DOMAIN sessions' :
              sessions[k].status = "finalized" => sessions'[k].status = "finalized"
        /\ lastSession'.op = "finalizeSession" =>
              LET call == lastSession'
              IN  /\ call.before = SessionOf(sessions, call.trackId)
                  /\ call.ret # <<>> =>
                        /\ Len(call.before) = 1
                        /\ call.before[1].status = "active"
                        /\ call.trackId \in DOMAIN sessions'
                        /\ sessions'[call.trackId].status = "finalized"
                        /\ call.ret[1] = sessions'[call.trackId]
                  /\ (call.before = <<>> \/ call.before[1].status = "finalized") =>
                        /\ call.ret = <<>>
                        /\ sessions' = sessions
      ]_vars

\* finalizeSession was called for a session that was finalized already
C20_Witness ==
    /\ lastSession.op = "finalizeSession"
    /\ Found("finalized")
    /\ lastSession.ret = <<>>
    /\ sessions[lastSession.trackId] = lastSession.before[1]

\* is the sequence a the beginning of the sequence b?
IsPrefix(a, b) == Len(a) <= Len(b) /\ SubSeq(b, 1, Len(a)) = a

\* C21: an update of an active session sets endMs to the sample time and
\* appends the crop it carries at the end of the evidence list, or leaves
\* the list as it was when it carries none (the session is no longer held
\* only when that update discarded it as too short); no operation takes a
\* crop out of a held active session or reorders its crops; the first
\* update for a track identity creates an active session with startMs =
\* endMs = sample time that holds the crop given, if any.
C21_EvidenceAppendOnly ==
    [][ /\ \A k \in DOMAIN sessions \cap DOMAIN sessions' :
              sessions[k].status = "active" =>
                  IsPrefix(sessions[k].crops, sessions'[k].crops)
        /\ lastSession'.op = "update" =>
              LET call == lastSession'
                  k == call.trackId
              IN  /\ call.before = SessionOf(sessions, k)
                  /\ call.before = <<>> =>
                        /\ k \in DOMAIN sessions'
                        /\ sessions'[k] = [ trackId |-> k,
                                            startMs |-> call.sampleTime,
                                            endMs   |-> call.sampleTime,
                                            crops   |-> call.cropImage,
                                            status  |-> "active" ]
                  /\ (call.before # <<>> /\ call.before[1].status = "active") =>
                        IF k \in DOMAIN sessions'
                        THEN /\ sessions'[k].crops
                                  = call.before[1].crops \o call.cropImage
                             /\ sessions'[k].endMs = call.sampleTime
                             /\ sessions'[k].startMs = call.before[1].startMs
                        ELSE /\ call.cropImage # <<>>
                             /\ Len(call.before[1].crops) + 1
                                  >= sessionConfig.maxSessionFrames
                             /\ Len(call.before[1].crops) + 1
                                  < sessionConfig.minSessionFrames
      ]_vars

\* an update added a second, different crop to an active session
C21_Witness ==
    /\ lastSession.op = "update"
    /\ Found("active")
    /\ Len(lastSession.before[1].crops) = 1
    /\ lastSession.cropImage # <<>>
    /\ lastSession.cropImage # lastSession.before[1].crops
    /\ lastSession.trackId \in DOMAIN sessions
    /\ sessions[lastSession.trackId].crops
          = lastSession.before[1].crops \o lastSession.cropImage
    /\ sessions[lastSession.trackId].endMs > lastSession.before[1].endMs

----------------------------------------------------------------------------
(* Properties of Deduplicator                                              *)

\* the gap between the timestamps of two events, in ms
TimestampGap(a, b) == Abs(DateGetTime(a.timestamp) - DateGetTime(b.timestamp))

\* the window that applies to two events
WindowFor(a, b) ==
    IF a.status = b.status THEN sameDirectionWindow ELSE oppositeDirectionWindow

\* C9: checkDuplicate(e) reports a duplicate iff the history it finds holds
\* an event of e's plate whose timestamp gap to e is at most
\* sameDirectionWindow for equal directions, or at most
\* oppositeDirectionWindow for different ones.
C9_DuplicateIffPlateInWindow ==
    [][ lastCheck'.op = "checkDuplicate" =>
          LET e == lastCheck'.newEvent[1]
          IN  lastCheck'.isDuplicate <=>
                \E i \in 1..Len(recentEvents) :
                    /\ recentEvents[i].plate = e.plate
                    /\ TimestampGap(recentEvents[i], e) <= WindowFor(recentEvents[i], e)
      ]_vars

\* a duplicate in the same direction whose gap is beyond the window of
\* opposite directions
C9_Witness ==
    /\ lastCheck.op = "checkDuplicate"
    /\ lastCheck.isDuplicate
    /\ lastCheck.previousEvent[1].status = lastCheck.newEvent[1].status
    /\ TimestampGap(lastCheck.previousEvent[1], lastCheck.newEvent[1])
          > oppositeDirectionWindow

\* C10 as stated: the timeDiff of a reported duplicate is the gap between
\* the new event and the referenced previous event that was compared with
\* the window, and so never exceeds that window.
C10_TimeDiffIsComparedGap ==
    (lastCheck.op = "checkDuplicate" /\ lastCheck.isDuplicate) =>
        LET e == lastCheck.newEvent[1]
            previous == lastCheck.previousEvent[1]
        IN  /\ lastCheck.timeDiff = TimestampGap(previous, e)
            /\ lastCheck.timeDiff <= WindowFor(previous, e)

\* the last n elements of a sequence
LastN(list, n) == SubSeq(list, Len(list) - n + 1, Len(list))

\* C26: after a checkDuplicate call the history holds at most
\* maxHistorySize events; it is the end of the history found, extended by
\* the new event when that was accepted, so the events stay in acceptance
\* order and the one taken out when the cap is exceeded is the oldest.
C26_HistoryBounded ==
    [][ lastCheck'.op = "checkDuplicate" =>
          LET accepted == IF lastCheck'.isDuplicate THEN recentEvents
                          ELSE Append(recentEvents, lastCheck'.newEvent[1])
          IN  /\ Len(recentEvents') <= maxHistorySize
              /\ Len(recentEvents') = Min(Len(accepted), maxHistorySize)
              /\ recentEvents' = LastN(accepted, Len(recentEvents'))
      ]_vars

\* a third event was accepted into a history capped at two: the oldest was
\* taken out and the other two kept in order
C26_Witness ==
    /\ lastCheck.op = "checkDuplicate"
    /\ maxHistorySize = 2
    /\ Len(recentEvents) = 2
    /\ lastCheck.shifted # <<>>
    /\ lastCheck.shifted[1] # recentEvents[1]
    /\ recentEvents[1] # recentEvents[2]
    /\ recentEvents[2] = lastCheck.newEvent[1]

\* C27: a call that reports no duplicate puts the new event at the end of
\* the history, a call that reports a duplicate leaves the history as it
\* was, and the event a duplicate is reported against is one of the
\* history, which holds only events accepted as non-duplicates.
C27_AppendIffNotDuplicate ==
    [][ lastCheck'.op = "checkDuplicate" =>
          LET e == lastCheck'.newEvent[1]
          IN  /\ lastCheck'.isDuplicate => recentEvents' = recentEvents
              /\ ~lastCheck'.isDuplicate =>
                    /\ recentEvents' # <<>>
                    /\ recentEvents'[Len(recentEvents')] = e
                    /\ Len(recentEvents') = Min(Len(recentEvents) + 1, maxHistorySize)
              /\ lastCheck'.isDuplicate =>
                    \E i \in 1..Len(recentEvents) :
                        recentEvents[i] = lastCheck'.previousEvent[1]
              /\ \A i \in 1..Len(recentEvents') :
                    \/ \E j \in 1..Len(recentEvents) : recentEvents[j] = recentEvents'[i]
                    \/ recentEvents'[i] = e /\ ~lastCheck'.isDuplicate
      ]_vars

\* a duplicate was reported for an event that differs from the one in the
\* history, and the history is as it was
C27_Witness ==
    /\ lastCheck.op = "checkDuplicate"
    /\ lastCheck.isDuplicate
    /\ lastCheck.previousEvent[1] # lastCheck.newEvent[1]
    /\ recentEvents = << lastCheck.previousEvent[1] >>

\* C36: any two events of the history with the same plate text lie more
\* than sameDirectionWindow apart when their directions are equal and more
\* than oppositeDirectionWindow apart when they differ, in every state: one
\* reached by accepting an event, by shifting the oldest out, or by
\* clearHistory.
C36_HistoryEventsApart ==
    \A i, j \in 1..Len(recentEvents) :
        (i < j /\ recentEvents[i].plate = recentEvents[j].plate) =>
            TimestampGap(recentEvents[i], recentEvents[j])
                > WindowFor(recentEvents[i], recentEvents[j])

\* the history holds two events of one plate and opposite directions, and
\* the call that accepted the later one shifted the oldest event out
C36_Witness ==
    /\ lastCheck.op = "checkDuplicate"
    /\ lastCheck.shifted # <<>>
    /\ \E i, j \in 1..Len(recentEvents) :
          /\ i < j
          /\ recentEvents[i].plate = recentEvents[j].plate
          /\ recentEvents[i].status # recentEvents[j].status
          /\ recentEvents[j] = lastCheck.newEvent[1]

\* the step hands checkDuplicate a sighting of the plate and direction of
\* the sighting before, less than sameDirectionWindow after it
Resubmission ==
    /\ lastCheck.op = "checkDuplicate"
    /\ lastCheck'.op = "checkDuplicate"
    /\ lastCheck'.newEvent[1].plate = lastCheck.newEvent[1].plate
    /\ lastCheck'.newEvent[1].status = lastCheck.newEvent[1].status
    /\ TimestampGap(lastCheck.newEvent[1], lastCheck'.newEvent[1])
          < sameDirectionWindow

\* C37 as stated: every resubmission of a plate with the same direction
\* less than sameDirectionWindow after the sighting before is reported as
\* a duplicate.
C37_Original ==
    [][ Resubmission => lastCheck'.isDuplicate ]_vars

\* the event the sighting before was accepted as, or was reported a
\* duplicate of
LastAccepted ==
    IF lastCheck.isDuplicate THEN lastCheck.previousEvent[1]
    ELSE lastCheck.newEvent[1]

\* C37: a resubmission is reported as a duplicate exactly when it lies
\* within the window of the event accepted last for the plate; a sighting
\* reported as a duplicate is not put into the history, so the window does
\* not move with it.
C37_DuplicateOfLastAccepted ==
    [][ Resubmission =>
          /\ lastCheck'.isDuplicate
                <=> TimestampGap(LastAccepted, lastCheck'.newEvent[1])
                      <= WindowFor(LastAccepted, lastCheck'.newEvent[1])
          /\ lastCheck'.isDuplicate =>
                /\ lastCheck'.previousEvent = << LastAccepted >>
                /\ recentEvents' = recentEvents
      ]_vars

\* the sighting at minute 6 was accepted next to the one at minute 0: the
\* sighting between them, 1, 2 or 4 minutes before it, was a duplicate
C37_Witness ==
    /\ lastCheck.op = "checkDuplicate"
    /\ ~lastCheck.isDuplicate
    /\ lastCheck.newEvent = << SeriesEvent("P1", "ENTRY", 6) >>
    /\ Len(recentEvents) = 2
    /\ recentEvents[1] = SeriesEvent("P1", "ENTRY", 0)
    /\ recentEvents[2] = SeriesEvent("P1", "ENTRY", 6)

----------------------------------------------------------------------------
(* Properties of Voter                                                     *)

\* the flattened input of the last vote and the distinct texts in it
VotedCandidates == Flat(lastVote.candidates)

VotedTexts == { VotedCandidates[i].text : i \in 1..Len(VotedCandidates) }

\* a vote over at least one candidate has been observed
VotedNonEmpty == lastVote.op = "vote" /\ VotedCandidates # <<>>

\* occurrences of a text in the input, and its mean and highest confidence
CountOf(text) == Len(Confidences(VotedCandidates, text))

MeanOf(text) == << SumOf(Confidences(VotedCandidates, text)), CountOf(text) >>

HighestOf(text) == MaxOf(Confidences(VotedCandidates, text))

\* the texts with the highest occurrence count
TopTexts == { t \in VotedTexts : \A u \in VotedTexts : CountOf(t) >= CountOf(u) }

\* C11 as stated: the winner of a non-empty vote has the highest occurrence
\* count, and no text with that count has a higher mean confidence than the
\* winner; the highest single confidence decides only between texts tied on
\* count and mean.
C11_WinnerHasTopCountAndMean ==
    VotedNonEmpty =>
        /\ lastVote.result.winner \in TopTexts
        /\ \A t \in TopTexts :
              /\ ~QuotGT(MeanOf(t), MeanOf(lastVote.result.winner))
              /\ QuotEQ(MeanOf(t), MeanOf(lastVote.result.winner))
                    => HighestOf(t) <= HighestOf(lastVote.result.winner)

\* C12: the method is frequency exactly when one text occurs more often than
\* every other text (or is the only text), and that text is then the winner;
\* when exactly two texts occur, twice each, with different mean confidence,
\* the one of higher mean wins with method confidence.
C12_FrequencyIffClearWinner ==
    VotedNonEmpty =>
        /\ lastVote.result.method = "frequency" <=> Cardinality(TopTexts) = 1
        /\ lastVote.result.method = "frequency" =>
              TopTexts = { lastVote.result.winner }
        /\ \A t \in VotedTexts, u \in VotedTexts :
              ( /\ VotedTexts = {t, u}
                /\ CountOf(t) = 2
                /\ CountOf(u) = 2
                /\ QuotGT(MeanOf(t), MeanOf(u)) )
              => /\ lastVote.result.winner = t
                 /\ lastVote.result.method = "confidence"

\* the vote over [[A, A], [B, A]]: A three times, B once, A wins by frequency
C12_Witness ==
    /\ VotedNonEmpty
    /\ VotedTexts = {TextA, TextB}
    /\ CountOf(TextA) = 3
    /\ CountOf(TextB) = 1
    /\ Len(lastVote.candidates) = 2
    /\ lastVote.result.winner = TextA
    /\ lastVote.result.method = "frequency"

\* C22: a vote over no crops, or over crops whose candidate lists are all
\* empty, returns the empty result: winner '', confidence 0, method
\* frequency, no votes and no candidates.
C22_EmptyVote ==
    (lastVote.op = "vote" /\ VotedCandidates = <<>>) =>
        /\ lastVote.result.winner = <<>>
        /\ QuotEQ(lastVote.result.confidence, <<0, 1>>)
        /\ lastVote.result.method = "frequency"
        /\ lastVote.result.votes = <<>>
        /\ lastVote.result.candidates = <<>>

\* a vote over two crops without candidates
C22_Witness ==
    /\ lastVote.op = "vote"
    /\ Len(lastVote.candidates) = 2
    /\ VotedCandidates = <<>>
    /\ lastVote.result.winner = <<>>

\* the position at which a text first occurs in the flattened input
FirstIndex(text) ==
    CHOOSE i \in 1..Len(VotedCandidates) :
        /\ VotedCandidates[i].text = text
        /\ \A j \in 1..(i - 1) : VotedCandidates[j].text # text

\* C23: when two or more texts have the highest count and all of them have
\* the same mean and the same highest confidence, the winner is the one of
\* them that occurs first in the flattened input, and the method is
\* tiebreak.
C23_FirstEncounteredWins ==
    ( /\ VotedNonEmpty
      /\ Cardinality(TopTexts) >= 2
      /\ \A t \in TopTexts, u \in TopTexts :
            QuotEQ(MeanOf(t), MeanOf(u)) /\ HighestOf(t) = HighestOf(u) )
    => /\ lastVote.result.winner \in TopTexts
       /\ \A t \in TopTexts :
             FirstIndex(lastVote.result.winner) <= FirstIndex(t)
       /\ lastVote.result.method = "tiebreak"

\* A and B tied at the top on all three levels, B met before A and after a
\* text of lower count; B wins
C23_Witness ==
    /\ VotedNonEmpty
    /\ VotedTexts = {TextA, TextB, TextC}
    /\ TopTexts = {TextA, TextB}
    /\ VotedCandidates[1].text = TextC
    /\ FirstIndex(TextB) < FirstIndex(TextA)
    /\ lastVote.result.winner = TextB
    /\ lastVote.result.method = "tiebreak"

\* the sum of the counts of the entries of a tally
RECURSIVE TallySum(_)
TallySum(votes) ==
    IF votes = <<>> THEN 0 ELSE Head(votes)[2] + TallySum(Tail(votes))

\* C24: for a non-empty input the confidence returned is the mean
\* confidence of the candidates of the winning text, the tally has exactly
\* one entry for each distinct text, holding its number of occurrences,
\* and the counts add up to the number of flattened candidates.
C24_ConfidenceAndTally ==
    VotedNonEmpty =>
        LET votes == lastVote.result.votes
        IN  /\ lastVote.result.winner \in VotedTexts
            /\ QuotEQ(lastVote.result.confidence, MeanOf(lastVote.result.winner))
            /\ \A i \in 1..Len(votes) : votes[i][1] \in VotedTexts
            /\ \A t \in VotedTexts :
                  /\ Cardinality({ i \in 1..Len(votes) : votes[i][1] = t }) = 1
                  /\ \A i \in 1..Len(votes) :
                        votes[i][1] = t => votes[i][2] = CountOf(t)
            /\ TallySum(votes) = Len(VotedCandidates)

\* the winner occurs twice with different confidences beside another text
C24_Witness ==
    /\ VotedNonEmpty
    /\ VotedTexts = {TextA, TextC}
    /\ lastVote.result.winner = TextC
    /\ CountOf(TextC) = 2
    /\ HighestOf(TextC) * 2 > SumOf(Confidences(VotedCandidates, TextC))
    /\ Len(lastVote.result.votes) = 2

----------------------------------------------------------------------------
(* Properties of Validator                                                 *)

\* the text splits on hyphens into exactly three segments: a region of the
\* allow-list, 2-4 letters and 3-4 digits
StrictFormat(plate) ==
    LET parts == SplitHyphen(plate, 1, <<>>)
    IN  /\ Len(parts) = 3
        /\ parts[1] \in Regions
        /\ Len(parts[2]) \in 2..4
        /\ \A i \in 1..Len(parts[2]) : isBengaliLetter(parts[2][i])
        /\ Len(parts[3]) \in 3..4
        /\ \A i \in 1..Len(parts[3]) : parts[3][i] \in Digits

\* the text has 3 to 20 characters, at least 2 of them of the script
FallbackFormat(plate) ==
    /\ Len(plate) \in 3..20
    /\ Cardinality({ i \in 1..Len(plate) : isBengaliChar(plate[i]) }) >= 2

\* what C13 says of the result of a call
ValidationAsClaimed ==
    LET r == lastValidation.result
    IN  /\ (r.valid /\ r.mode = "strict") <=> StrictFormat(r.plate)
        /\ (r.valid /\ r.mode = "fallback") <=>
              /\ ~StrictFormat(r.plate)
              /\ lastValidation.enabled
              /\ FallbackFormat(r.plate)
        /\ ~r.valid => r.reasons = validateStrictFormat(r.plate).reasons
        /\ ~lastValidation.enabled => ~(r.valid /\ r.mode = "fallback")

\* C13 as stated: for every non-empty text the result is valid/strict iff
\* the text has the strict format, valid/fallback iff it has not, fallback
\* is enabled and the text has the fallback format, and otherwise invalid
\* with the reasons of the strict pass; with fallback disabled no result is
\* valid/fallback.
C13_Original ==
    (lastValidation.op = "validatePlate" /\ lastValidation.result.plate # <<>>)
        => ValidationAsClaimed

\* C13 (amended): the same for every text that is not empty and not made of
\* whitespace only.
C13_ValidatePlateModes ==
    (lastValidation.op = "validatePlate" /\ ~IsBlank(lastValidation.result.plate))
        => ValidationAsClaimed

\* a text of the fallback format, not of the strict format, was validated
\* after setDemoFallback(false) and found invalid
C13_Witness ==
    /\ lastValidation.op = "validatePlate"
    /\ ~lastValidation.enabled
    /\ ~StrictFormat(lastValidation.result.plate)
    /\ FallbackFormat(lastValidation.result.plate)
    /\ ~lastValidation.result.valid

\* the text has no character that is not white space
OnlyWhitespace(plate) == { i \in 1..Len(plate) : plate[i] \notin Whitespace } = {}

\* C25: for a text that is empty or made of white space only, validatePlate
\* returns valid = false with the one reason that the text is empty,
\* whether fallback is enabled or not, and the result carries nothing of
\* the strict or the fallback pass (no warning, no metadata, mode strict).
C25_BlankIsInvalid ==
    (lastValidation.op = "validatePlate" /\ OnlyWhitespace(lastValidation.result.plate))
        => /\ ~lastValidation.result.valid
           /\ lastValidation.result.reasons
                = << Reason("Empty or null plate text", 0, <<>>) >>
           /\ lastValidation.result.mode = "strict"
           /\ lastValidation.result.warnings = <<>>
           /\ lastValidation.result.metadata = <<>>

\* a text of one space was validated after setDemoFallback(false)
C25_Witness ==
    /\ lastValidation.op = "validatePlate"
    /\ ~lastValidation.enabled
    /\ lastValidation.result.plate = Run(Space, 1)
    /\ ~lastValidation.result.valid

\* the text has no hyphen and no space
NoSeparator(plate) == \A i \in 1..Len(plate) : plate[i] # Hyphen /\ plate[i] # Space

\* C32: with fallback enabled, a text of more than 10 and at most 20
\* characters without hyphen or space that has two Bengali characters or
\* more is valid in mode fallback, and the missing separator is reported
\* among the warnings of the result and not among its reasons.
C32_SeparatorIsWarning ==
    LET r == lastValidation.result
    IN  ( /\ lastValidation.op = "validatePlate"
          /\ lastValidation.enabled
          /\ Len(r.plate) > 10
          /\ NoSeparator(r.plate)
          /\ FallbackFormat(r.plate) )
        => /\ r.valid
           /\ r.mode = "fallback"
           /\ \E k \in 1..Len(r.warnings) :
                 r.warnings[k] = "Long plates should contain separators"
           /\ \A k \in 1..Len(r.reasons) :
                 r.reasons[k].kind # "Long plates should contain separators"

----------------------------------------------------------------------------
(* Properties of BestFrameSelector                                         *)

\* the overall score of a crop: 0.4 * sharpness + 0.3 * contrast + 0.3 * area
\* of its quality, or the score calculateQuality estimates when it has none
OverallScore(crop) ==
    IF crop.quality # <<>>
    THEN 4 * crop.quality[1].sharpness + 3 * crop.quality[1].contrast
           + 3 * crop.quality[1].area
    ELSE calculateQuality(crop).overall

\* C28: selectBestFrame on a non-empty list returns a crop of the list
\* whose overall score is maximal, the earliest such crop of the list; on a
\* list of one crop it returns that crop; the list is left as it was.
C28_BestFrameIsFirstMaximal ==
    (lastSelect.op = "selectBestFrame" /\ lastSelect.crops # <<>>) =>
        LET crops == lastSelect.crops
        IN  /\ \E i \in 1..Len(crops) :
                  /\ lastSelect.ret = << crops[i] >>
                  /\ \A j \in 1..Len(crops) :
                        OverallScore(crops[j]) <= OverallScore(crops[i])
                  /\ \A j \in 1..(i - 1) :
                        OverallScore(crops[j]) < OverallScore(crops[i])
            /\ Len(crops) = 1 => lastSelect.ret = << crops[1] >>
            /\ selectCrops = crops

\* of three crops the second and the third have the highest score, and the
\* second is returned
C28_Witness ==
    /\ lastSelect.op = "selectBestFrame"
    /\ Len(lastSelect.crops) = 3
    /\ lastSelect.crops[2] # lastSelect.crops[3]
    /\ OverallScore(lastSelect.crops[2]) = OverallScore(lastSelect.crops[3])
    /\ OverallScore(lastSelect.crops[1]) < OverallScore(lastSelect.crops[2])
    /\ lastSelect.ret = << lastSelect.crops[2] >>

\* the smallest time distance of a crop to the first k crops of a list
MinDistance(crop, list, k) ==
    CHOOSE d \in { Abs(crop.timeMs - list[i].timeMs) : i \in 1..k } :
        \A i \in 1..k : d <= Abs(crop.timeMs - list[i].timeMs)

\* C29 as stated: for every list and every n >= 1 the first crop returned
\* by selectDiverseFrames has the highest overall score of the list, and
\* each later one is a crop not selected before whose smallest time
\* distance to the crops selected before it is the largest.
C29_DiverseStartsWithBest ==
    (lastSelect.op = "selectDiverseFrames" /\ lastSelect.crops # <<>>) =>
        LET crops == lastSelect.crops
            ret == lastSelect.ret
        IN  /\ ret # <<>>
            /\ \A j \in 1..Len(crops) :
                  OverallScore(crops[j]) <= OverallScore(ret[1])
            /\ \A k \in 2..Len(ret) :
                  \A j \in 1..Len(crops) :
                      (\A i \in 1..(k - 1) : ret[i] # crops[j]) =>
                          MinDistance(crops[j], ret, k - 1)
                              <= MinDistance(ret[k], ret, k - 1)

\* the position in the list of the crop that is k-th by descending overall
\* score, crops of equal score in the order of the list
RankedIndex(crops, k) ==
    CHOOSE j \in 1..Len(crops) :
        Cardinality({ i \in 1..Len(crops) :
            \/ OverallScore(crops[i]) > OverallScore(crops[j])
            \/ OverallScore(crops[i]) = OverallScore(crops[j]) /\ i < j }) = k - 1

\* C33 as stated: for every list and every n >= 0, getTopFrames returns
\* min(n, length) crops, the k-th of them the crop that is k-th by
\* descending overall score (list order among equal scores), also when the
\* list has n crops or fewer.
C33_TopFramesRanked ==
    lastSelect.op = "getTopFrames" =>
        LET crops == lastSelect.crops
            ret == lastSelect.ret
        IN  /\ Len(ret) = Min(lastSelect.n, Len(crops))
            /\ \A k \in 1..Len(ret) : ret[k] = crops[RankedIndex(crops, k)]

\* ret takes each of its crops from a position of its own in the list
DistinctElementsOf(ret, crops) ==
    \E f \in [1..Len(ret) -> 1..Len(crops)] :
        /\ \A k, l \in 1..Len(ret) : k # l => f[k] # f[l]
        /\ \A k \in 1..Len(ret) : ret[k] = crops[f[k]]

\* C38 as stated: for every list and every n >= 0, selectDiverseFrames
\* returns exactly min(n, length) crops, each a distinct element of the
\* list, and leaves the list as it was.
C38_DiverseCountAndDistinct ==
    lastSelect.op = "selectDiverseFrames" =>
        /\ Len(lastSelect.ret) = Min(lastSelect.n, Len(lastSelect.crops))
        /\ DistinctElementsOf(lastSelect.ret, lastSelect.crops)
        /\ selectCrops = lastSelect.crops

----------------------------------------------------------------------------
(* Properties of DemoPage                                                  *)

\* C14 as stated: every event in the store is for a winning text that the
\* validator (as constructed, fallback enabled) accepts, and carries the
\* validity and mode the validator returns for that text.
C14_EventsAreValidated ==
    \A i \in 1..Len(events) :
        LET validation == validatePlate(events[i].plate, TRUE)
        IN  /\ validation.valid
            /\ events[i].validation.valid = validation.valid
            /\ events[i].validation.mode = validation.mode

\* C15 as stated: between two frames that call setHasCreatedEvent(false)
\* (frames before 2000 ms without a plate detection) at most one event is
\* added to the store, however frames and renders interleave.
C15_AtMostOneEventPerReset == lastFrame.sinceReset <= 1

====
